---- MODULE Spec2Model ----
(***************************************************************************)
(* A model of the ray-propagation core of the RayTracing repository:       *)
(* Scene.simulate / Scene._propagate over Polyhedron meshes made of        *)
(* TriangularPlanarPolygon faces, with Ray, Material, Point and Vector.    *)
(*                                                                         *)
(* Numbers.  The program computes in float64.  The model computes in exact *)
(* rationals <<numerator, denominator>> and keeps every coordinate an      *)
(* integer: the scenes it builds have faces perpendicular to the z axis    *)
(* and rays travelling along z, so every hit is at normal incidence and    *)
(* every square root, sine and cosine the code takes is exact.  An         *)
(* operation whose exact result would not be representable is written with *)
(* CHOOSE over an empty set, so TLC stops with an error rather than        *)
(* continue on a wrong value.                                              *)
(*                                                                         *)
(* Spec is the scene: the calls that build it and simulate.                *)
(* Scene._propagate compares m1.name with m2.name (Scene.py line 257), and *)
(* Material.py assigns no attribute name, so every hit ends in             *)
(* AttributeError after the hit ray has been recorded (action HitRaises).  *)
(* Lines 258-283, the Fresnel split and the reflected and transmitted      *)
(* rays, are never reached and have no action.  FairSpec is Spec with the  *)
(* steps of a running simulate taken whenever there is one.                *)
(*                                                                         *)
(* Three more specifications exercise parts of the program on their own,   *)
(* with the same variables: MeshSpec the calls on one Polyhedron (objects  *)
(* holds the mesh, log the last call and how it ended), VectorSpec the     *)
(* calls on two Vector objects and TriangleSpec get_intersection of one    *)
(* triangle, both in rational coordinates (log holds the calls made).      *)
(***************************************************************************)
EXTENDS Integers, Sequences, FiniteSets, TLC

VARIABLES objects, rays, stack, sim, log

vars == <<objects, rays, stack, sim, log>>

(***************************************************************************)
(* Exact rational arithmetic, standing for the program's float arithmetic. *)
(***************************************************************************)
\* The element of a one-element set.  Operators are written as
\* The({f(x) : x \in {e}}) where they use an argument more than once, so
\* that the argument e is evaluated once, as a Python call evaluates it.
The(S) == CHOOSE x \in S : TRUE

Abs(x) == IF x < 0 THEN -x ELSE x

RECURSIVE GCD(_, _)
GCD(a, b) == IF b = 0 THEN a ELSE The({GCD(y, x % y) : x \in {a}, y \in {b}})

Rat(n, d) ==
    The({LET g == GCD(Abs(x), Abs(y))
             s == IF y < 0 THEN -1 ELSE 1
         IN  <<(s * x) \div g, (s * y) \div g>> : x \in {n}, y \in {d}})

RZero == <<0, 1>>
ROne == <<1, 1>>
RInt(k) == <<k, 1>>
\* Sums and differences are taken over the least common denominator.
RAdd(a, b) ==
    The({Rat(x[1] * (y[2] \div g) + y[1] * (x[2] \div g), (x[2] \div g) * y[2]) :
         x \in {a}, y \in {b}, g \in {GCD(a[2], b[2])}})
RSub(a, b) ==
    The({Rat(x[1] * (y[2] \div g) - y[1] * (x[2] \div g), (x[2] \div g) * y[2]) :
         x \in {a}, y \in {b}, g \in {GCD(a[2], b[2])}})
RMul(a, b) == The({Rat(x[1] * y[1], x[2] * y[2]) : x \in {a}, y \in {b}})
RDiv(a, b) == The({Rat(x[1] * y[2], x[2] * y[1]) : x \in {a}, y \in {b}})
RLess(a, b) == The({x[1] * y[2] < y[1] * x[2] : x \in {a}, y \in {b}})
RLeq(a, b) == The({x[1] * y[2] <= y[1] * x[2] : x \in {a}, y \in {b}})
RAbs(a) == The({<<Abs(x[1]), x[2]>> : x \in {a}})
RSquare(a) == The({RMul(x, x) : x \in {a}})

RECURSIVE RPow(_, _)
RPow(a, k) ==
    The({IF n = 0 THEN ROne ELSE RMul(x, RPow(x, n - 1)) : x \in {a}, n \in {k}})

\* The exact integer a rational equals; an error when it is no integer.
IntOf(a) == The({CHOOSE k \in {x[1]} : x[2] = 1 : x \in {a}})

\* np.sqrt / np.linalg.norm on a perfect square; an error otherwise.
ISqrt(n) == The({CHOOSE k \in 0..m : k * k = m : m \in {n}})
RSqrt(a) == The({<<ISqrt(x[1]), ISqrt(x[2])>> : x \in {a}})

(***************************************************************************)
(* Point and Vector: triples <<x, y, z>>.                                  *)
(***************************************************************************)
\* Python's None: as a file path, and where a Point is expected.
None == "None"
NoPoint == <<>>

VSub(p, q) == The({<<x[1] - y[1], x[2] - y[2], x[3] - y[3]>> : x \in {p}, y \in {q}})
VAdd(p, q) == The({<<x[1] + y[1], x[2] + y[2], x[3] + y[3]>> : x \in {p}, y \in {q}})
VScale(k, v) == The({<<n * x[1], n * x[2], n * x[3]>> : n \in {k}, x \in {v}})

\* Vector.dot
dot(a, b) == The({x[1] * y[1] + x[2] * y[2] + x[3] * y[3] : x \in {a}, y \in {b}})

\* Vector.cross
cross(a, b) ==
    The({<<x[2] * y[3] - x[3] * y[2], x[3] * y[1] - x[1] * y[3], x[1] * y[2] - x[2] * y[1]>> :
         x \in {a}, y \in {b}})

\* Vector._calculate_module
module(v) == The({ISqrt(dot(x, x)) : x \in {v}})

\* Point.distance
distance(p, q) == module(VSub(p, q))

\* Vector.normalize: a zero vector is left unchanged (warning only).
normalize(v) ==
    The({IF mod = 0 THEN x
         ELSE <<IntOf(Rat(x[1], mod)), IntOf(Rat(x[2], mod)), IntOf(Rat(x[3], mod))>> :
         x \in {v}, mod \in {module(v)}})

\* Vector.invert
invert(v) == The({<<-x[1], -x[2], -x[3]>> : x \in {v}})

\* Vector.angle_with, given by the cosine of the angle it returns:
\* arccos(dot / (module * module)).  The code raises ValueError when the
\* product of the modules is 0; no caller in the model reaches that.
cos_angle_with(a, b) == The({Rat(dot(x, y), module(x) * module(y)) : x \in {a}, y \in {b}})

\* "angle_with(...) > np.pi/2" on the angle whose cosine is c.
AngleExceedsRight(c) == RLess(c, RZero)

(***************************************************************************)
(* Material.  A material is the file it was read from (None: the vacuum    *)
(* default).  The sample files are inputs; the model fixes two of them.    *)
(***************************************************************************)
\* Material.__init__
Material(file_path) == [file_path |-> file_path]

Vacuum == Material(None)

GlassPath == "materials/glass.csv"
DyePath == "materials/dye.csv"

\* The wavelengths (nm) a source may draw (min_wavelength = max_wavelength).
Wavelengths == {650}

\* The Beer-Lambert factor of Ray.set_final_point over one unit of distance,
\* exp(-alpha * 1e-3) with alpha = 4 pi n_img / (wavelength * 1e-9): 1 where
\* the imaginary index is 0 (vacuum, glass); the dye file's imaginary index
\* is the one that halves the intensity per unit of distance.
unit_transmission(m, wavelength) ==
    IF m.file_path = DyePath THEN Rat(1, 2) ELSE ROne

(***************************************************************************)
(* Ray                                                                     *)
(***************************************************************************)
\* Ray.__init__
Ray(origin, normal, wavelength, intensity) ==
    [origin |-> origin, normal |-> normal, final_point |-> NoPoint,
     wavelength |-> wavelength, intensity |-> intensity, medium |-> Vacuum]

\* set_final_point without the assignment of the terminal point.
set_final_point_unstored(ray, final_point) ==
    The({[r EXCEPT !.intensity = RMul(@, RPow(unit_transmission(r.medium, r.wavelength),
                                              distance(r.origin, p)))] :
         r \in {ray}, p \in {final_point}})

\* Ray.set_final_point: sets the terminal point and applies the absorption
\* exp(-alpha * distance) of the ray's medium.
set_final_point(ray, final_point) ==
    The({[r EXCEPT !.final_point = p,
                   !.intensity = RMul(@, RPow(unit_transmission(r.medium, r.wavelength),
                                              distance(r.origin, p)))] :
         r \in {ray}, p \in {final_point}})

(***************************************************************************)
(* TriangularPlanarPolygon                                                 *)
(***************************************************************************)
\* TriangularPlanarPolygon._calculate_normal
calculate_normal(points) ==
    The({normalize(cross(VSub(v[2], v[1]), VSub(v[3], v[1]))) : v \in {points}})

\* TriangularPlanarPolygon.__init__
TriangularPlanarPolygon(points) ==
    [vertices |-> points, normal |-> calculate_normal(points)]

\* The epsilon 1e-6 of get_intersection, as 1 / EpsilonDenominator.
EpsilonDenominator == 1000000
Epsilon == Rat(1, EpsilonDenominator)

\* The last test of get_intersection: t > 1e-6.
IsAhead(t) == RLess(Epsilon, t)

\* TriangularPlanarPolygon.get_intersection (Moller-Trumbore): the hit
\* point, or None (NoPoint).
\* Lines 146-170 of get_intersection, after the parallel test.
barycentric(V1, edge1, edge2, ray_origin, ray_vector, h, a) ==
    LET s == VSub(ray_origin, V1)
        u == Rat(dot(s, h), a)
    IN  IF RLess(u, RZero) \/ RLess(ROne, u) THEN NoPoint
        ELSE
          LET q == cross(s, edge1)
              v == Rat(dot(ray_vector, q), a)
          IN  IF RLess(v, RZero) \/ RLess(ROne, RAdd(u, v)) THEN NoPoint
              ELSE
                The({IF IsAhead(t)
                     THEN <<IntOf(RAdd(RInt(ray_origin[1]), RMul(RInt(ray_vector[1]), t))),
                            IntOf(RAdd(RInt(ray_origin[2]), RMul(RInt(ray_vector[2]), t))),
                            IntOf(RAdd(RInt(ray_origin[3]), RMul(RInt(ray_vector[3]), t)))>>
                     ELSE NoPoint : t \in {Rat(dot(edge2, q), a)}})

get_intersection(face, ray) ==
    The({The({IF RLess(RInt(Abs(a)), Epsilon) THEN NoPoint
              ELSE barycentric(V1, edge1, edge2, ray_origin, ray_vector, h, a) :
              a \in {dot(edge1, cross(ray_vector, edge2))},
              h \in {cross(ray_vector, edge2)}}) :
         V1 \in {face.vertices[1]},
         edge1 \in {VSub(face.vertices[2], face.vertices[1])},
         edge2 \in {VSub(face.vertices[3], face.vertices[1])},
         ray_origin \in {ray.origin},
         ray_vector \in {ray.normal}})

(***************************************************************************)
(* Polyhedron                                                              *)
(***************************************************************************)
\* A mesh holds its faces twice: faces, the Triangle objects, and
\* vertices with face_indices, the indexed form.  Positions are counted from
\* 1 here (Python's index + 1).  reference is the reference Point: point is
\* its coordinates (NoPoint for None) and alias says which object it is,
\* the position in vertices of the Point object it is identical to, or 0
\* for a Point of its own.
NoReference == [alias |-> 0, point |-> NoPoint]

\* Polyhedron.__init__, lines 38-43: the empty mesh.
\* progress_callback_function says whether a callback was given.
EmptyPolyhedron(material_path) ==
    [type |-> "Polyhedron", faces |-> <<>>, material |-> Material(material_path),
     vertices |-> <<>>, face_indices |-> <<>>, reference |-> NoReference,
     progress_callback_function |-> FALSE]

\* The position of the first entry of a list that equals p.
first_position(list, p) == CHOOSE k \in 1..Len(list) : list[k] = p /\ \A j \in 1..(k - 1) : list[j] # p

\* Every position kept, repeated coordinates or not.
kept_positions_all(vertices) == [k \in 1..Len(vertices) |-> k]

\* Lines 139-144 of clean_vertices: the positions whose vertex is the first
\* with its coordinates, in order; these Point objects make the new list.
kept_positions(vertices) ==
    SelectSeq([k \in 1..Len(vertices) |-> k], LAMBDA k : first_position(vertices, vertices[k]) = k)

\* Polyhedron.clean_vertices: the vertex list without repeated coordinates
\* and every face index mapped to the new position of its coordinates.  A
\* reference that is one of the vertex objects stays that object, in the
\* list or out of it.
clean_vertices(self) ==
    The({The({[self EXCEPT
                 !.vertices = new_vertices,
                 !.face_indices =
                     [f \in 1..Len(self.face_indices) |->
                         [c \in 1..Len(self.face_indices[f]) |->
                             first_position(new_vertices,
                                            self.vertices[self.face_indices[f][c]])]],
                 !.reference.alias =
                     IF @ = 0 THEN 0
                     ELSE IF \E n \in 1..Len(kept) : kept[n] = @
                          THEN CHOOSE n \in 1..Len(kept) : kept[n] = @
                          ELSE 0] :
              new_vertices \in {[n \in 1..Len(kept) |-> self.vertices[kept[n]]]}}) :
         kept \in {kept_positions(self.vertices)}})

\* Polyhedron.add_face of a triangle (lines 115-129): copies of its vertices
\* are appended to the vertex list, their positions to face_indices, the
\* triangle itself to faces; then clean_vertices if requested.
add_face(self, polygon, clean) ==
    The({IF clean THEN clean_vertices(added) ELSE added :
         added \in {[self EXCEPT
                       !.vertices = @ \o polygon.vertices,
                       !.face_indices =
                           Append(@, [c \in 1..3 |-> Len(self.vertices) + c]),
                       !.faces = Append(@, polygon)]}})

\* Lines 48-50 of Polyhedron.__init__: add_face for every polygon of the list.
RECURSIVE add_faces(_, _, _)
add_faces(self, source, i) ==
    IF i > Len(source) THEN self
    ELSE add_faces(add_face(self, TriangularPlanarPolygon(source[i]), TRUE), source, i + 1)

\* Line 53: the reference is a copy of the first vertex, if there is one.
with_reference(self) ==
    [self EXCEPT !.reference =
        IF self.vertices # <<>> THEN [alias |-> 0, point |-> self.vertices[1]]
        ELSE NoReference]

\* Polyhedron.__init__ from a list of triangles and a material path: the
\* faces in the order given, the material read from the path.
Polyhedron(source, material_path) ==
    with_reference(add_faces(EmptyPolyhedron(material_path), source, 1))

\* Polyhedron.add_face of a RectangularPlanarPolygon (lines 111-113 and
\* 128-129): its two triangles are added, each with the default cleaning.
add_rectangle(self, vertices, clean) ==
    The({IF clean THEN clean_vertices(added) ELSE added :
         added \in {add_face(add_face(self,
                         TriangularPlanarPolygon(<<vertices[1], vertices[2], vertices[3]>>), TRUE),
                         TriangularPlanarPolygon(<<vertices[3], vertices[4], vertices[1]>>), TRUE)}})

\* What a call on a mesh leaves behind: the mesh and how the call ended.
Returned(self) == [self |-> self, outcome |-> "returned"]
Raised(self, error) == [self |-> self, outcome |-> error]

\* Polyhedron.translate: every vertex of the list and every vertex of every
\* face is moved (lines 164-180), then the reference Point (lines 183-185),
\* which raises AttributeError when the reference is None and moves a
\* vertex of the list a second time when it is that vertex.
translate(self, d) ==
    The({IF moved.reference.point = NoPoint THEN Raised(moved, "AttributeError")
         ELSE IF moved.reference.alias = 0
              THEN Returned([moved EXCEPT !.reference.point = VAdd(@, d)])
              ELSE Returned([moved EXCEPT
                               !.vertices[moved.reference.alias] = VAdd(@, d),
                               !.reference.point = VAdd(@, d)]) :
         moved \in {IF self.vertices = <<>> THEN self
                    ELSE [self EXCEPT
                            !.vertices = [k \in 1..Len(self.vertices) |-> VAdd(self.vertices[k], d)],
                            !.faces = [f \in 1..Len(self.faces) |->
                                          [self.faces[f] EXCEPT !.vertices =
                                              [c \in 1..3 |-> VAdd(self.faces[f].vertices[c], d)]]],
                            !.reference.point =
                                IF self.reference.alias = 0 THEN @
                                ELSE VAdd(self.vertices[self.reference.alias], d)]}})

\* getattr(vertex, axis) for axis "x", "y", "z".
coordinate(point, axis) == point[CASE axis = "x" -> 1 [] axis = "y" -> 2 [] axis = "z" -> 3]

\* min(self.vertices, key=...) and max(...): the first vertex with the
\* smallest, or the largest, coordinate on the axis.
first_lowest(vertices, axis) ==
    CHOOSE k \in 1..Len(vertices) :
        /\ \A j \in 1..Len(vertices) : coordinate(vertices[k], axis) <= coordinate(vertices[j], axis)
        /\ \A j \in 1..(k - 1) : coordinate(vertices[j], axis) > coordinate(vertices[k], axis)

first_highest(vertices, axis) ==
    CHOOSE k \in 1..Len(vertices) :
        /\ \A j \in 1..Len(vertices) : coordinate(vertices[k], axis) >= coordinate(vertices[j], axis)
        /\ \A j \in 1..(k - 1) : coordinate(vertices[j], axis) < coordinate(vertices[k], axis)

\* Polyhedron.centroid: with vertices it calls face.area() (line 245), a
\* method no face class defines; without vertices it copies the reference.
centroid(self) ==
    IF self.vertices # <<>> \/ self.reference.point = NoPoint
    THEN Raised(self, "AttributeError")
    ELSE Returned(self.reference.point)

\* An optional number argument: Omitted for the default None, <<v>> for v.
Omitted == <<>>

\* change_reference_point that ignores a call with an unknown kind.
change_reference_point_lenient(self, ref_type, axis, x, y, z) ==
    CASE ref_type = "Centroid" ->
            IF centroid(self).outcome = "returned"
            THEN Returned([self EXCEPT !.reference = [alias |-> 0, point |-> centroid(self).self]])
            ELSE centroid(self)
      [] ref_type = "Lowest" ->
            IF self.vertices = <<>> THEN Returned(self)
            ELSE Returned([self EXCEPT !.reference =
                     [alias |-> first_lowest(self.vertices, axis),
                      point |-> self.vertices[first_lowest(self.vertices, axis)]]])
      [] ref_type = "Highest" ->
            IF self.vertices = <<>> THEN Returned(self)
            ELSE Returned([self EXCEPT !.reference =
                     [alias |-> first_highest(self.vertices, axis),
                      point |-> self.vertices[first_highest(self.vertices, axis)]]])
      [] ref_type = "Manual" ->
            IF x = Omitted \/ y = Omitted \/ z = Omitted THEN Raised(self, "ValueError")
            ELSE Returned([self EXCEPT !.reference =
                              [alias |-> 0, point |-> <<x[1], y[1], z[1]>>]])
      [] OTHER -> Returned(self)

\* Polyhedron.change_reference_point
change_reference_point(self, ref_type, axis, x, y, z) ==
    CASE ref_type = "Centroid" ->
            IF centroid(self).outcome = "returned"
            THEN Returned([self EXCEPT !.reference = [alias |-> 0, point |-> centroid(self).self]])
            ELSE centroid(self)
      [] ref_type = "Lowest" ->
            IF self.vertices = <<>> THEN Returned(self)
            ELSE Returned([self EXCEPT !.reference =
                     [alias |-> first_lowest(self.vertices, axis),
                      point |-> self.vertices[first_lowest(self.vertices, axis)]]])
      [] ref_type = "Highest" ->
            IF self.vertices = <<>> THEN Returned(self)
            ELSE Returned([self EXCEPT !.reference =
                     [alias |-> first_highest(self.vertices, axis),
                      point |-> self.vertices[first_highest(self.vertices, axis)]]])
      [] ref_type = "Manual" ->
            IF x = Omitted \/ y = Omitted \/ z = Omitted THEN Raised(self, "ValueError")
            ELSE Returned([self EXCEPT !.reference =
                              [alias |-> 0, point |-> <<x[1], y[1], z[1]>>]])
      [] OTHER -> Raised(self, "ValueError")

\* An OBJ file is the list of its lines: [tag |-> "v", point |-> <<x, y, z>>]
\* for a line that starts with "v ", [tag |-> "f", parts |-> the vertex
\* numbers as written] for one that starts with "f ", [tag |-> "#"] for any
\* other line.  list[i] of Python for an int i: positions from the
\* end for a negative i, IndexError outside -len(list) .. len(list) - 1.
in_range(list, i) == -Len(list) <= i /\ i < Len(list)
item(list, i) == IF i >= 0 THEN list[i + 1] ELSE list[Len(list) + i + 1]

\* Lines 76-86 of _parse_from_obj_file, one "f " line: indices are the
\* parts minus 1; three make a triangle and four a rectangle of copies of
\* the vertices read so far, added without cleaning; a line with another
\* number of parts takes neither branch.
parse_face(self, tmp_vertex, parts) ==
    The({IF Len(indices) \notin {3, 4} THEN Returned(self)
         ELSE IF \E c \in 1..Len(indices) : ~in_range(tmp_vertex, indices[c])
              THEN Raised(self, "IndexError")
              ELSE The({IF Len(indices) = 3
                        THEN Returned(add_face(self, TriangularPlanarPolygon(points), FALSE))
                        ELSE Returned(add_rectangle(self, points, FALSE)) :
                        points \in {[c \in 1..Len(indices) |-> item(tmp_vertex, indices[c])]}}) :
         indices \in {[c \in 1..Len(parts) |-> parts[c] - 1]}})

\* Lines 68-86: the lines in order, up to the first that raises.
RECURSIVE parse_lines(_, _, _, _)
parse_lines(self, tmp_vertex, lines, n) ==
    IF n > Len(lines) THEN Returned(self)
    ELSE IF lines[n].tag = "v"
         THEN parse_lines(self, Append(tmp_vertex, lines[n].point), lines, n + 1)
         ELSE IF lines[n].tag # "f"
         THEN parse_lines(self, tmp_vertex, lines, n + 1)
         ELSE The({IF face.outcome = "returned"
                   THEN parse_lines(face.self, tmp_vertex, lines, n + 1)
                   ELSE face :
                   face \in {parse_face(self, tmp_vertex, lines[n].parts)}})

\* The percentage with the line counted from 0.
progress_value_from_zero(current_line, total_lines) ==
    RMul(Rat(current_line - 1, total_lines), Rat(100, 1))

\* Line 71: current_line / total_lines * 100.
progress_value(current_line, total_lines) ==
    RMul(Rat(current_line, total_lines), Rat(100, 1))

\* Lines 68-86 with a progress callback: the calls of the callback in
\* order, each with its argument and with what had been read when it was
\* made (the vertices kept in tmp_vertex and the faces of the mesh); a
\* line that raises ends the calls.
RECURSIVE progress_calls(_, _, _, _)
progress_calls(self, tmp_vertex, lines, n) ==
    IF n > Len(lines) THEN <<>>
    ELSE <<[progress |-> progress_value(n, Len(lines)),
            vertices |-> Len(tmp_vertex), faces |-> Len(self.faces)]>>
         \o (IF lines[n].tag = "v"
             THEN progress_calls(self, Append(tmp_vertex, lines[n].point), lines, n + 1)
             ELSE IF lines[n].tag # "f"
             THEN progress_calls(self, tmp_vertex, lines, n + 1)
             ELSE The({IF face.outcome = "returned"
                       THEN progress_calls(face.self, tmp_vertex, lines, n + 1)
                       ELSE <<>> :
                       face \in {parse_face(self, tmp_vertex, lines[n].parts)}}))

\* Polyhedron.__init__ from the path of an OBJ file (lines 45-47 and 53) with
\* _parse_from_obj_file: the lines, clean_vertices at the end, the reference.
parse_from_obj_file(lines, material_path) ==
    The({IF parsed.outcome = "returned"
         THEN Returned(with_reference(clean_vertices(parsed.self)))
         ELSE parsed :
         parsed \in {parse_lines(EmptyPolyhedron(material_path), <<>>, lines, 1)}})

\* Polyhedron.get_intersections: [intersection, face] for every face hit,
\* in face order.
RECURSIVE intersections_from(_, _, _)
intersections_from(faces, ray, i) ==
    IF i > Len(faces) THEN <<>>
    ELSE The({IF p # NoPoint THEN <<[point |-> p, face |-> i]>> \o rest ELSE rest :
              p \in {get_intersection(faces[i], ray)},
              rest \in {intersections_from(faces, ray, i + 1)}})

get_intersections(polyhedron, ray) == intersections_from(polyhedron.faces, ray, 1)

\* min() with a comparison that lets an equal key replace the minimum.
Replaces_on_equal(key_new, key_best) == key_new <= key_best

\* The comparison inside Python's min(): a later item replaces the current
\* minimum only when its key is strictly smaller.
Replaces(key_new, key_best) == key_new < key_best

\* min(items, key=lambda i: i.point.distance(origin)): one left-to-right scan.
RECURSIVE min_scan(_, _, _, _)
min_scan(items, origin, i, best) ==
    IF i > Len(items) THEN best
    ELSE The({min_scan(items, origin, i + 1, next) :
              next \in {IF Replaces(distance(items[i].point, origin),
                                     distance(best.point, origin))
                        THEN items[i] ELSE best}})

min_by_distance(items, origin) ==
    The({min_scan(list, o, 2, list[1]) : list \in {items}, o \in {origin}})

\* The None that get_nearest_intersection returns when no face is hit.
NoIntersection == [point |-> NoPoint, face |-> 0]

\* Polyhedron.get_nearest_intersection
get_nearest_intersection(polyhedron, ray) ==
    The({IF intersections # <<>> THEN min_by_distance(intersections, ray.origin)
         ELSE NoIntersection :
         intersections \in {get_intersections(polyhedron, ray)}})

(***************************************************************************)
(* RaySource (point mode, aperture angle 0)                                *)
(***************************************************************************)
\* RaySource.__init__ with mode 'point' and no rectangle.
RaySource(reference, normal, intensity) ==
    [type |-> "RaySource", reference |-> reference, normal |-> normal,
     intensity |-> intensity]

\* get_next_ray with the default intensity instead of the source's.
get_next_ray_default(source, wavelength) ==
    Ray(source.reference, source.normal, wavelength, ROne)

\* RaySource.get_next_ray: the wavelength is the draw of _random_wavelength;
\* with aperture angle 0 the direction is a new Vector with the normal's
\* components; in point mode the origin is the reference point.
get_next_ray(source, wavelength) ==
    Ray(source.reference, source.normal, wavelength, source.intensity)

(***************************************************************************)
(* Scene._propagate, one call per stack frame.                             *)
(***************************************************************************)
NoHit == [point |-> NoPoint, face |-> 0, polyhedron |-> 0]

\* A call of _propagate(ray, min_intensity, final_length, max_reflections):
\* arg is max_reflections as passed, max_reflections the local variable,
\* pc the call's position, intersection and m1 the locals of lines 237-255.
\* kind, root and path are history: how the ray was made ("emitted" by a
\* source; the "reflected" and "transmitted" rays of lines 272-283 are never
\* made), which emitted ray (object, number) it descends from, and by which
\* reflections and transmissions.
Frame(ray, max_reflections, kind, root, path) ==
    [ray |-> ray, arg |-> max_reflections, max_reflections |-> max_reflections,
     kind |-> kind, root |-> root, path |-> path, pc |-> "enter", intersection |-> NoHit,
     m1 |-> Vacuum]

Top == stack[Len(stack)]
Pop(s) == SubSeq(s, 1, Len(s) - 1)

\* The pruning test with the comparison turned round.
below_minimum_inverted(ray, min_intensity) == RLess(min_intensity, ray.intensity)

\* Line 224: the pruning test.
below_minimum(ray, min_intensity) == RLess(ray.intensity, min_intensity)

\* Lines 227-233: the nearest intersection of every Polyhedron hit, in the
\* order of Scene.objects, each with its polyhedron.
RECURSIVE scene_intersections_from(_, _, _)
scene_intersections_from(objs, ray, i) ==
    IF i > Len(objs) THEN <<>>
    ELSE The({IF objs[i].type = "Polyhedron"
              THEN The({IF x # NoIntersection
                        THEN <<[point |-> x.point, face |-> x.face, polyhedron |-> i]>> \o rest
                        ELSE rest :
                        x \in {get_nearest_intersection(objs[i], ray)}})
              ELSE rest :
              rest \in {scene_intersections_from(objs, ray, i + 1)}})

scene_intersections(objs, ray) ==
    The({scene_intersections_from(list, r, 1) : list \in {objs}, r \in {ray}})

\* The face normal left as the face was made.
oriented_normal_as_made(ray_normal, face_normal) == face_normal

\* Lines 246-249: the face normal after the orientation test, which inverts
\* the face's own Vector in place.
oriented_normal(ray_normal, face_normal) ==
    The({IF AngleExceedsRight(cos_angle_with(invert(ray_normal), normal))
         THEN invert(normal) ELSE normal : normal \in {face_normal}})

\* The escape point without the escape length.
escape_point_unscaled(ray, final_length) == VAdd(ray.origin, ray.normal)

\* Line 286: where an escaping ray is terminated.
escape_point(ray, final_length) == VAdd(ray.origin, VScale(final_length, ray.normal))

(***************************************************************************)
(* Bounds and inputs of the model.                                         *)
(***************************************************************************)
MaxObjects == 3
MaxRays == 2
MaxReflections == 2

MaxFaces == 2
MaxCoordinate == 5

MinIntensities == {RZero, Rat(1, 10), Rat(3, 5)}
FinalLengths == {2}

\* Triangles in the plane z = const: TriUp has normal +z, TriDown -z; HalfA
\* and HalfB are triangle1 and triangle2 of the rectangle
\* (0,0,z) (4,0,z) (4,4,z) (0,4,z), both with normal +z.
TriUp(z) == <<<<0, 0, z>>, <<4, 0, z>>, <<0, 4, z>>>>
TriDown(z) == <<<<0, 0, z>>, <<0, 4, z>>, <<4, 0, z>>>>
HalfA(z) == <<<<0, 0, z>>, <<4, 0, z>>, <<4, 4, z>>>>
HalfB(z) == <<<<4, 4, z>>, <<0, 4, z>>, <<0, 0, z>>>>

MeshCatalog ==
    { Polyhedron(<<TriDown(0), TriUp(2)>>, GlassPath),
      Polyhedron(<<TriDown(0), TriUp(2)>>, DyePath),
      Polyhedron(<<HalfA(0), HalfB(0)>>, None),
      Polyhedron(<<HalfA(2), HalfB(2)>>, GlassPath),
      Polyhedron(<<TriUp(4)>>, GlassPath),
      Polyhedron(<<TriUp(0)>>, DyePath) }

SourceCatalog ==
    { RaySource(<<1, 1, -1>>, <<0, 0, 1>>, ROne),
      RaySource(<<3, 2, -1>>, <<0, 0, 1>>, ROne),
      RaySource(<<1, 1, 5>>, <<0, 0, -1>>, ROne),
      RaySource(<<1, 1, 1>>, <<0, 0, 1>>, Rat(1, 20)) }

(***************************************************************************)
(* The state: Scene.objects, Scene.rays, the stack of _propagate calls     *)
(* (the innermost last), and the call of simulate with its loop position.  *)
(* log is a history variable with one entry per entry of Scene.rays: the   *)
(* emitted ray it descends from, its path, whether it hit or escaped, and  *)
(* its intensity when _propagate was entered.  shares is the position in   *)
(* Scene.objects of the source whose reference Point object is the ray's   *)
(* origin, 0 when no object holds it: get_next_ray passes the reference    *)
(* itself to Ray (RaySource.py:149, Ray.py:29), a hit records a deep copy  *)
(* (Scene.py:253) and an escape records the ray itself (Scene.py:287).     *)
(***************************************************************************)
LogEntry(frame, outcome) ==
    [root |-> frame.root, path |-> frame.path, outcome |-> outcome,
     entered |-> frame.ray.intensity,
     shares |-> IF outcome = "escaped" /\ frame.kind = "emitted" THEN frame.root[1] ELSE 0]

Idle ==
    [phase |-> "building", num_rays |-> 0, min_intensity |-> RZero, final_length |-> 0,
     max_reflections |-> 0, obj |-> 0, n |-> 0]

\* Scene.__init__
Init ==
    /\ objects = <<>>
    /\ rays = <<>>
    /\ stack = <<>>
    /\ sim = Idle
    /\ log = <<>>

\* Scene.add_object, lines 49-50, of a Polyhedron.
AddPolyhedron ==
    /\ sim.phase = "building"
    /\ Len(objects) < MaxObjects
    /\ \E polyhedron \in MeshCatalog : objects' = Append(objects, polyhedron)
    /\ UNCHANGED <<rays, stack, sim, log>>

\* Scene.add_object, lines 49-50, of a RaySource.
AddRaySource ==
    /\ sim.phase = "building"
    /\ Len(objects) < MaxObjects
    /\ \E source \in SourceCatalog : objects' = Append(objects, source)
    /\ UNCHANGED <<rays, stack, sim, log>>

\* The triangles and rectangles given to add_object as they are.
WrappedTriangles == {TriUp(0)}
WrappedRectangles == {<<<<0, 0, 0>>, <<4, 0, 0>>, <<4, 4, 0>>, <<0, 4, 0>>>>}

\* Lines 40-43 and 44-48 of Scene.add_object: the mesh made for a
\* triangle, Polyhedron() with the triangle added, and for a rectangle,
\* Polyhedron() with triangle1 and triangle2 added.  Neither has a
\* reference: add_face sets none.
wrapped_triangle(points) ==
    add_face(EmptyPolyhedron(None), TriangularPlanarPolygon(points), TRUE)

wrapped_rectangle(vertices) == add_rectangle(EmptyPolyhedron(None), vertices, FALSE)

\* Scene.add_object of a TriangularPlanarPolygon.
AddTriangle ==
    /\ sim.phase = "building"
    /\ Len(objects) < MaxObjects
    /\ \E points \in WrappedTriangles : objects' = Append(objects, wrapped_triangle(points))
    /\ UNCHANGED <<rays, stack, sim, log>>

\* Scene.add_object of a RectangularPlanarPolygon.
AddRectangle ==
    /\ sim.phase = "building"
    /\ Len(objects) < MaxObjects
    /\ \E vertices \in WrappedRectangles :
          objects' = Append(objects, wrapped_rectangle(vertices))
    /\ UNCHANGED <<rays, stack, sim, log>>

\* Scene.remove_object: the object at the index is deleted; an index below
\* 0 or past the end changes nothing.
RemoveObject ==
    /\ sim.phase = "building"
    /\ \E index \in -1..Len(objects) :
          objects' = IF index >= 0 /\ index < Len(objects)
                     THEN SubSeq(objects, 1, index) \o SubSeq(objects, index + 2, Len(objects))
                     ELSE objects
    /\ UNCHANGED <<rays, stack, sim, log>>

\* The material files given to set_material.
MaterialPaths == {GlassPath}

\* Polyhedron.set_material: the mesh's material is replaced by the one read
\* from the path.
set_material(self, material_path) == [self EXCEPT !.material = Material(material_path)]

\* set_material on an object of the scene.  On a RaySource the call reaches
\* its associated polyhedron, whose material nothing in the scene reads.
SetMaterial ==
    /\ sim.phase = "building"
    /\ \E i \in 1..Len(objects), material_path \in MaterialPaths :
          objects' = [objects EXCEPT ![i] =
                         IF @.type = "Polyhedron" THEN set_material(@, material_path) ELSE @]
    /\ UNCHANGED <<rays, stack, sim, log>>

\* Scene.simulate, lines 203-206: the call, clearing the list of rays.
Simulate ==
    /\ sim.phase = "building"
    /\ \E num_rays \in 1..MaxRays, min_intensity \in MinIntensities,
          final_length \in FinalLengths, max_reflections \in 0..MaxReflections :
          sim' = [phase |-> "simulating", num_rays |-> num_rays,
                  min_intensity |-> min_intensity, final_length |-> final_length,
                  max_reflections |-> max_reflections, obj |-> 1, n |-> 0]
    /\ rays' = <<>>
    /\ log' = <<>>
    /\ UNCHANGED <<objects, stack>>

\* Lines 206-209: the loops move on to the next object.
NextObject ==
    /\ sim.phase = "simulating"
    /\ stack = <<>>
    /\ sim.obj <= Len(objects)
    /\ objects[sim.obj].type # "RaySource" \/ sim.n = sim.num_rays
    /\ sim' = [sim EXCEPT !.obj = @ + 1, !.n = 0]
    /\ UNCHANGED <<objects, rays, stack, log>>

\* Lines 210-212: the next ray of the current source enters _propagate.
Emit ==
    /\ sim.phase = "simulating"
    /\ stack = <<>>
    /\ sim.obj <= Len(objects)
    /\ objects[sim.obj].type = "RaySource"
    /\ sim.n < sim.num_rays
    /\ \E wavelength \in Wavelengths :
          stack' = <<Frame(get_next_ray(objects[sim.obj], wavelength),
                           sim.max_reflections, "emitted", <<sim.obj, sim.n + 1>>, <<>>)>>
    /\ sim' = [sim EXCEPT !.n = @ + 1]
    /\ UNCHANGED <<objects, rays, log>>

\* simulate returns.
SimulateReturn ==
    /\ sim.phase = "simulating"
    /\ stack = <<>>
    /\ sim.obj > Len(objects)
    /\ sim' = [sim EXCEPT !.phase = "done"]
    /\ UNCHANGED <<objects, rays, stack, log>>

\* The pruning test passed without the return: the call never ends.
Prune_spinning ==
    /\ stack # <<>>
    /\ Top.pc = "enter"
    /\ below_minimum(Top.ray, sim.min_intensity)
    /\ UNCHANGED <<objects, rays, stack, sim, log>>

\* Lines 224-225: a ray below the minimum intensity is dropped.
Prune ==
    /\ stack # <<>>
    /\ Top.pc = "enter"
    /\ below_minimum(Top.ray, sim.min_intensity)
    /\ stack' = Pop(stack)
    /\ UNCHANGED <<objects, rays, sim, log>>

\* Escape with the ray appended twice.
Escape_recorded_twice ==
    /\ stack # <<>>
    /\ Top.pc = "enter"
    /\ ~below_minimum(Top.ray, sim.min_intensity)
    /\ scene_intersections(objects, Top.ray) = <<>>
    /\ \E ray \in {set_final_point(Top.ray, escape_point(Top.ray, sim.final_length))} :
          rays' = rays \o <<ray, ray>>
    /\ log' = log \o <<LogEntry(Top, "escaped"), LogEntry(Top, "escaped")>>
    /\ stack' = Pop(stack)
    /\ UNCHANGED <<objects, sim>>

\* Escape with the ray put at the front of Scene.rays.
Escape_prepended ==
    /\ stack # <<>>
    /\ Top.pc = "enter"
    /\ ~below_minimum(Top.ray, sim.min_intensity)
    /\ scene_intersections(objects, Top.ray) = <<>>
    /\ rays' = <<set_final_point(Top.ray, escape_point(Top.ray, sim.final_length))>> \o rays
    /\ log' = <<LogEntry(Top, "escaped")>> \o log
    /\ stack' = Pop(stack)
    /\ UNCHANGED <<objects, sim>>

\* Lines 226-235 and 284-287: nothing is hit; the ray is terminated at the
\* escape point and is itself appended to Scene.rays.
Escape ==
    /\ stack # <<>>
    /\ Top.pc = "enter"
    /\ ~below_minimum(Top.ray, sim.min_intensity)
    /\ scene_intersections(objects, Top.ray) = <<>>
    /\ rays' = Append(rays, set_final_point(Top.ray, escape_point(Top.ray, sim.final_length)))
    /\ log' = Append(log, LogEntry(Top, "escaped"))
    /\ stack' = Pop(stack)
    /\ UNCHANGED <<objects, sim>>

\* HitRaises with the ray recorded and its copy recorded as well.
HitRaises_recorded_twice ==
    /\ stack # <<>>
    /\ Top.pc = "enter"
    /\ ~below_minimum(Top.ray, sim.min_intensity)
    /\ \E intersections \in {scene_intersections(objects, Top.ray)} :
        /\ intersections # <<>>
        /\ \E intersection \in {min_by_distance(intersections, Top.ray.origin)} :
            /\ objects' = [objects EXCEPT
                   ![intersection.polyhedron].faces[intersection.face].normal =
                       oriented_normal(Top.ray.normal, @)]
            /\ \E ray \in {set_final_point(Top.ray, intersection.point)} :
                  rays' = rays \o <<ray, ray>>
            /\ log' = log \o <<LogEntry(Top, "hit"), LogEntry(Top, "hit")>>
    /\ stack' = <<>>
    /\ sim' = [sim EXCEPT !.phase = "raised"]

\* Lines 226-257: the nearest hit is chosen, the face normal oriented in
\* place, the ray terminated and a copy recorded; then line 257 reads
\* m1.name, an attribute no Material has, and the AttributeError leaves
\* _propagate and simulate.
HitRaises ==
    /\ stack # <<>>
    /\ Top.pc = "enter"
    /\ ~below_minimum(Top.ray, sim.min_intensity)
    /\ \E intersections \in {scene_intersections(objects, Top.ray)} :
        /\ intersections # <<>>
        /\ \E intersection \in {min_by_distance(intersections, Top.ray.origin)} :
            /\ objects' = [objects EXCEPT
                   ![intersection.polyhedron].faces[intersection.face].normal =
                       oriented_normal(Top.ray.normal, @)]
            /\ rays' = Append(rays, set_final_point(Top.ray, intersection.point))
            /\ log' = Append(log, LogEntry(Top, "hit"))
    /\ stack' = <<>>
    /\ sim' = [sim EXCEPT !.phase = "raised"]

(***************************************************************************)
(* Calls on one mesh of a scene under construction.  In MeshSpec the mesh  *)
(* is objects[1] and log holds the last call made on it: its name, its     *)
(* arguments and how it ended.                                             *)
(***************************************************************************)
\* Triangles given to add_face and to the constructor: three that share
\* vertices, and two with repeated vertices.
FaceInputs ==
    { TriUp(0), HalfA(0), HalfB(0),
      <<<<0, 0, 0>>, <<0, 0, 0>>, <<4, 0, 0>>>>,
      <<<<4, 4, 0>>, <<4, 4, 0>>, <<4, 4, 0>>>> }

Translations == {<<1, 0, 0>>}

\* Calls of change_reference_point: every kind, an unknown kind, and Manual
\* with and without its coordinates.
ReferenceCall(ref_type, axis, x, y, z) ==
    [ref_type |-> ref_type, axis |-> axis, x |-> x, y |-> y, z |-> z]

ReferenceCalls ==
    { ReferenceCall("Centroid", "x", Omitted, Omitted, Omitted),
      ReferenceCall("Lowest", "x", Omitted, Omitted, Omitted),
      ReferenceCall("Highest", "y", Omitted, Omitted, Omitted),
      ReferenceCall("Manual", "x", <<1>>, <<1>>, <<1>>),
      ReferenceCall("Manual", "x", Omitted, <<1>>, <<1>>),
      ReferenceCall("Manual", "x", <<1>>, <<1>>, Omitted),
      ReferenceCall("Manual", "x", Omitted, Omitted, Omitted),
      ReferenceCall("Middle", "x", <<1>>, <<1>>, <<1>>),
      ReferenceCall("", "x", Omitted, Omitted, Omitted) }

\* OBJ files: three vertices and a face line of two or three vertex numbers,
\* the first 1 and the others from -1 to 4, and four vertices with a face line of four or five numbers
\* or with a face line before the last vertex.
VertexLines ==
    << [tag |-> "v", point |-> <<0, 0, 0>>], [tag |-> "v", point |-> <<4, 0, 0>>],
       [tag |-> "v", point |-> <<4, 4, 0>>], [tag |-> "v", point |-> <<0, 4, 0>>] >>

FaceLine(parts) == [tag |-> "f", parts |-> parts]

ObjFiles ==
    {SubSeq(VertexLines, 1, 3) \o <<FaceLine(parts)>> :
        parts \in {<<1, a>> : a \in -1..4} \cup {<<1, a, b>> : a \in -1..4, b \in -1..4}}
    \cup {VertexLines \o <<FaceLine(parts)>> :
             parts \in {<<1, 2, 3, 4>>, <<1, 2, 3, 5>>, <<4, 3, 2, 0>>, <<1, 2, 3, 4, 1>>}}
    \cup {SubSeq(VertexLines, 1, 3) \o <<FaceLine(<<1, 2, 4>>), VertexLines[4]>>,
          VertexLines \o <<FaceLine(<<1, 2, 3>>), FaceLine(<<1, 3>>), FaceLine(<<3, 4, 1>>)>>}

\* The largest absolute coordinate in a mesh.
within(point, bound) == \A c \in 1..3 : -bound <= point[c] /\ point[c] <= bound

InBounds(self) ==
    /\ \A k \in 1..Len(self.vertices) : within(self.vertices[k], MaxCoordinate)
    /\ self.reference.point # NoPoint => within(self.reference.point, MaxCoordinate)

\* Polyhedron(), Polyhedron([triangle, ...]): the mesh is made.
Construct ==
    /\ sim.phase = "building"
    /\ objects = <<>>
    /\ \E source \in {<<>>} \cup {<<t>> : t \in FaceInputs} :
        /\ objects' = <<Polyhedron(source, None)>>
        /\ log' = <<[call |-> "Polyhedron", source |-> source, outcome |-> "returned"]>>
    /\ UNCHANGED <<rays, stack, sim>>

\* Polyhedron(path of an OBJ file): the mesh is made, or the constructor raises.
ParseObj ==
    /\ sim.phase = "building"
    /\ objects = <<>>
    /\ log = <<>>
    /\ \E lines \in ObjFiles : \E made \in {parse_from_obj_file(lines, None)} :
        /\ objects' = IF made.outcome = "returned" THEN <<made.self>> ELSE objects
        /\ log' = <<[call |-> "parse", lines |-> lines, outcome |-> made.outcome]>>
    /\ UNCHANGED <<rays, stack, sim>>

\* OBJ files read with a progress callback: with a comment line first or
\* last, with a rectangle, and with a face line that raises before the end.
ProgressFiles ==
    { <<[tag |-> "#"]>> \o SubSeq(VertexLines, 1, 3) \o <<FaceLine(<<1, 2, 3>>)>>,
      SubSeq(VertexLines, 1, 3) \o <<FaceLine(<<1, 2, 3>>), [tag |-> "#"]>>,
      VertexLines \o <<FaceLine(<<1, 2, 3, 4>>)>>,
      VertexLines \o <<FaceLine(<<1, 2, 3>>), FaceLine(<<3, 4, 1>>)>>,
      SubSeq(VertexLines, 1, 3) \o <<FaceLine(<<1, 2, 4>>), VertexLines[4]>> }

\* Polyhedron(path of an OBJ file, None, callback): as ParseObj, with the
\* calls of the callback.
ParseObjWithProgress ==
    /\ sim.phase = "building"
    /\ objects = <<>>
    /\ log = <<>>
    /\ \E lines \in ProgressFiles : \E made \in {parse_from_obj_file(lines, None)} :
        /\ objects' = IF made.outcome = "returned"
                       THEN <<[made.self EXCEPT !.progress_callback_function = TRUE]>>
                       ELSE objects
        /\ log' = <<[call |-> "parse with progress", lines |-> lines, outcome |-> made.outcome,
                     progress |-> progress_calls(EmptyPolyhedron(None), <<>>, lines, 1)]>>
    /\ UNCHANGED <<rays, stack, sim>>

\* Polyhedron.add_face of a triangle.
AddFace ==
    /\ sim.phase = "building"
    /\ objects # <<>>
    /\ stack = <<>>
    /\ Len(objects[1].faces) < MaxFaces
    /\ \E points \in FaceInputs, clean \in BOOLEAN :
        /\ objects' = <<add_face(objects[1], TriangularPlanarPolygon(points), clean)>>
        /\ log' = <<[call |-> "add_face", points |-> points, outcome |-> "returned"]>>
    /\ UNCHANGED <<rays, stack, sim>>

\* Polyhedron.clean_vertices
CleanVertices ==
    /\ sim.phase = "building"
    /\ objects # <<>>
    /\ stack = <<>>
    /\ objects' = <<clean_vertices(objects[1])>>
    /\ log' = <<[call |-> "clean_vertices", before |-> Len(objects[1].vertices),
                 outcome |-> "returned"]>>
    /\ UNCHANGED <<rays, stack, sim>>

\* Polyhedron.translate on a mesh that calls no callback on the way: one
\* made without a callback, or one without vertices (line 164).
Translate ==
    /\ sim.phase = "building"
    /\ objects # <<>>
    /\ stack = <<>>
    /\ ~objects[1].progress_callback_function \/ objects[1].vertices = <<>>
    /\ InBounds(objects[1])
    /\ \E d \in Translations : \E done \in {translate(objects[1], d)} :
        /\ objects' = <<done.self>>
        /\ log' = <<[call |-> "translate", d |-> d, outcome |-> done.outcome]>>
    /\ UNCHANGED <<rays, stack, sim>>

\* Polyhedron.translate on a mesh made with a progress callback hands
\* control to the callback after every vertex and every face, so the call
\* is a sequence of steps.  stack holds the call in progress: its vector,
\* the loop it is in and the position i reached there, and (history) the
\* mesh as it was when the call was made.  The callbacks of this program
\* call nothing on the mesh, so no other call starts before the end.
TranslateCall ==
    /\ sim.phase = "building"
    /\ objects # <<>>
    /\ stack = <<>>
    /\ objects[1].progress_callback_function
    /\ objects[1].vertices # <<>>
    /\ InBounds(objects[1])
    /\ \E d \in Translations :
          stack' = <<[call |-> "translate", d |-> d, stage |-> "vertices", i |-> 1,
                      before |-> objects[1]]>>
    /\ UNCHANGED <<objects, rays, sim, log>>

\* Lines 166-171: the next vertex of the list is moved, and with it the
\* reference when it is that object; the callback is called with the
\* share of the vertices done.
TranslateVertex ==
    /\ stack # <<>>
    /\ stack[1].call = "translate"
    /\ stack[1].stage = "vertices"
    /\ \E i \in {stack[1].i}, d \in {stack[1].d} :
        /\ objects' = <<[objects[1] EXCEPT
                            !.vertices[i] = VAdd(@, d),
                            !.reference.point =
                                IF objects[1].reference.alias = i THEN VAdd(@, d) ELSE @]>>
        /\ log' = <<[call |-> "progress_callback_function", loop |-> "vertices",
                     progress |-> progress_value(i, Len(objects[1].vertices)),
                     outcome |-> "returned"]>>
        /\ stack' = <<[stack[1] EXCEPT
                          !.i = IF i = Len(objects[1].vertices) THEN 1 ELSE i + 1,
                          !.stage = IF i < Len(objects[1].vertices) THEN "vertices"
                                    ELSE IF objects[1].faces # <<>> THEN "faces"
                                    ELSE "reference"]>>
    /\ UNCHANGED <<rays, sim>>

\* Lines 174-180: the vertices of the next face are moved and the callback
\* is called with the share of the faces done.
TranslateFace ==
    /\ stack # <<>>
    /\ stack[1].call = "translate"
    /\ stack[1].stage = "faces"
    /\ \E i \in {stack[1].i}, d \in {stack[1].d} :
        /\ objects' = <<[objects[1] EXCEPT
                            !.faces[i].vertices = [c \in 1..3 |-> VAdd(@[c], d)]]>>
        /\ log' = <<[call |-> "progress_callback_function", loop |-> "faces",
                     progress |-> progress_value(i, Len(objects[1].faces)),
                     outcome |-> "returned"]>>
        /\ stack' = <<[stack[1] EXCEPT
                          !.i = i + 1,
                          !.stage = IF i < Len(objects[1].faces) THEN "faces"
                                    ELSE "reference"]>>
    /\ UNCHANGED <<rays, sim>>

\* Lines 183-185: the reference Point is moved, which raises AttributeError
\* when it is None and moves a vertex of the list again when it is that
\* vertex; the call ends.
TranslateReference ==
    /\ stack # <<>>
    /\ stack[1].call = "translate"
    /\ stack[1].stage = "reference"
    /\ \E d \in {stack[1].d}, self \in {objects[1]} :
        /\ objects' =
              IF self.reference.point = NoPoint THEN objects
              ELSE IF self.reference.alias = 0
                   THEN <<[self EXCEPT !.reference.point = VAdd(@, d)]>>
                   ELSE <<[self EXCEPT !.vertices[self.reference.alias] = VAdd(@, d),
                                       !.reference.point = VAdd(@, d)]>>
        /\ log' = <<[call |-> "translate", d |-> d,
                     outcome |-> IF self.reference.point = NoPoint THEN "AttributeError"
                                 ELSE "returned"]>>
    /\ stack' = <<>>
    /\ UNCHANGED <<rays, sim>>

\* Polyhedron.change_reference_point
ChangeReferencePoint ==
    /\ sim.phase = "building"
    /\ objects # <<>>
    /\ stack = <<>>
    /\ \E a \in ReferenceCalls :
        \E done \in {change_reference_point(objects[1], a.ref_type, a.axis, a.x, a.y, a.z)} :
        /\ objects' = <<done.self>>
        /\ log' = <<[call |-> "change_reference_point", arguments |-> a,
                     outcome |-> done.outcome]>>
    /\ UNCHANGED <<rays, stack, sim>>

\* Polyhedron.set_material on the mesh.
SetMeshMaterial ==
    /\ sim.phase = "building"
    /\ objects # <<>>
    /\ stack = <<>>
    /\ \E material_path \in MaterialPaths :
        /\ objects' = <<set_material(objects[1], material_path)>>
        /\ log' = <<[call |-> "set_material", material_path |-> material_path,
                     outcome |-> "returned"]>>
    /\ UNCHANGED <<rays, stack, sim>>

MeshNext ==
    \/ Construct
    \/ ParseObj
    \/ ParseObjWithProgress
    \/ AddFace
    \/ CleanVertices
    \/ Translate
    \/ TranslateCall
    \/ TranslateVertex
    \/ TranslateFace
    \/ TranslateReference
    \/ ChangeReferencePoint
    \/ SetMeshMaterial

MeshSpec == Init /\ [][MeshNext]_vars

(***************************************************************************)
(* Vector objects (VectorSpec).  A Vector is the record of its attributes  *)
(* x, y, z and module, all rationals; module is computed when the object   *)
(* is made and after normalize, and read from the attribute everywhere     *)
(* else.  objects holds two Vector objects and log the calls made on them. *)
(***************************************************************************)
\* The largest of |x|, |y|, |z|.
LargestAbs(x, y, z) ==
    CHOOSE m \in {RAbs(x), RAbs(y), RAbs(z)} :
        RLeq(RAbs(x), m) /\ RLeq(RAbs(y), m) /\ RLeq(RAbs(z), m)

\* Vector._calculate_module: np.linalg.norm of the coordinates, the square
\* root of the sum of their squares.  It is taken as m * sqrt of the sum of
\* the squares of x/m, y/m, z/m for the largest absolute coordinate m,
\* which is the same number and keeps the squares within TLC's integers.
Vector_calculate_module(x, y, z) ==
    LET m == LargestAbs(x, y, z)
    IN  IF m = RZero THEN RZero
        ELSE RMul(m, RSqrt(RAdd(RAdd(RSquare(RDiv(x, m)), RSquare(RDiv(y, m))),
                                RSquare(RDiv(z, m)))))

\* Vector.__init__
Vector_init(x, y, z) == [x |-> x, y |-> y, z |-> z, module |-> Vector_calculate_module(x, y, z)]

\* Vector.normalize on the object: with the attribute module 0 a warning and
\* nothing else, otherwise three divisions and the module computed anew.
Vector_normalize(self) ==
    IF self.module = RZero
    THEN [self |-> self, warning |-> TRUE, divisions |-> 0]
    ELSE [self |-> Vector_init(RDiv(self.x, self.module), RDiv(self.y, self.module),
                               RDiv(self.z, self.module)),
          warning |-> FALSE, divisions |-> 3]

\* Vector.invert on the object: the attribute module is not assigned.
Vector_invert(self) ==
    [self EXCEPT !.x = RSub(RZero, @), !.y = RSub(RZero, @), !.z = RSub(RZero, @)]

\* Vector.dot on objects.
Vector_dot(self, other) ==
    RAdd(RAdd(RMul(self.x, other.x), RMul(self.y, other.y)), RMul(self.z, other.z))

\* angle_with that takes a zero vector to be at a right angle to anything.
Vector_angle_with_orthogonal(self, other) ==
    IF RMul(self.module, other.module) = RZero
    THEN [outcome |-> "returned", cos |-> RZero]
    ELSE [outcome |-> "returned",
          cos |-> RDiv(Vector_dot(self, other), RMul(self.module, other.module))]

\* Vector.angle_with on objects: ValueError when the product of the two
\* module attributes is 0, otherwise the angle arccos(cos), given by cos.
Vector_angle_with(self, other) ==
    IF RMul(self.module, other.module) = RZero
    THEN [outcome |-> "ValueError", cos |-> <<>>]
    ELSE [outcome |-> "returned",
          cos |-> RDiv(Vector_dot(self, other), RMul(self.module, other.module))]

\* The vectors made: the zero vector and vectors of integer coordinates
\* with an integer magnitude, on and off the axes.
VectorInputs ==
    { <<0, 0, 0>>, <<1, 0, 0>>, <<0, -2, 0>>, <<3, 4, 0>>,
      <<0, 3, -4>>, <<1, 2, 2>>, <<-2, 1, 2>>, <<4, 0, 3>> }

MaxCalls == 2

\* Two Vector objects are made.
VectorInit ==
    /\ \E a, b \in VectorInputs :
          objects = <<Vector_init(RInt(a[1]), RInt(a[2]), RInt(a[3])),
                      Vector_init(RInt(b[1]), RInt(b[2]), RInt(b[3]))>>
    /\ rays = <<>>
    /\ stack = <<>>
    /\ sim = Idle
    /\ log = <<>>

\* v.normalize()
Normalize ==
    /\ Len(log) < MaxCalls
    /\ \E i \in 1..2 : \E done \in {Vector_normalize(objects[i])} :
        /\ objects' = [objects EXCEPT ![i] = done.self]
        /\ log' = Append(log, [call |-> "normalize", before |-> objects[i], after |-> done.self,
                               warning |-> done.warning, divisions |-> done.divisions,
                               outcome |-> "returned"])
    /\ UNCHANGED <<rays, stack, sim>>

\* v.invert()
Invert ==
    /\ Len(log) < MaxCalls
    /\ \E i \in 1..2 :
        /\ objects' = [objects EXCEPT ![i] = Vector_invert(objects[i])]
        /\ log' = Append(log, [call |-> "invert", before |-> objects[i],
                               after |-> Vector_invert(objects[i]), outcome |-> "returned"])
    /\ UNCHANGED <<rays, stack, sim>>

\* v.angle_with(w)
AngleWith ==
    /\ Len(log) < MaxCalls
    /\ \E i, j \in 1..2 : \E done \in {Vector_angle_with(objects[i], objects[j])} :
        log' = Append(log, [call |-> "angle_with", self |-> objects[i], other |-> objects[j],
                            outcome |-> done.outcome, cos |-> done.cos])
    /\ UNCHANGED <<objects, rays, stack, sim>>

VectorNext ==
    \/ Normalize
    \/ Invert
    \/ AngleWith

VectorSpec == VectorInit /\ [][VectorNext]_vars

(***************************************************************************)
(* One triangle and the rays tested against it (TriangleSpec), in          *)
(* rational coordinates: a point or vector is a triple of rationals.       *)
(* objects holds the triangle, its vertices and its normal, and log the    *)
(* calls of get_intersection made: the ray and what was returned.          *)
(***************************************************************************)
\* A triple of integers as a triple of rationals.
QPoint(p) == <<RInt(p[1]), RInt(p[2]), RInt(p[3])>>

\* numpy's a - b, np.dot(a, b) and np.cross(a, b) on coordinate arrays.
QSub(a, b) == <<RSub(a[1], b[1]), RSub(a[2], b[2]), RSub(a[3], b[3])>>

QDot(a, b) == RAdd(RAdd(RMul(a[1], b[1]), RMul(a[2], b[2])), RMul(a[3], b[3]))

QCross(a, b) ==
    <<RSub(RMul(a[2], b[3]), RMul(a[3], b[2])),
      RSub(RMul(a[3], b[1]), RMul(a[1], b[3])),
      RSub(RMul(a[1], b[2]), RMul(a[2], b[1]))>>

\* ray_origin + ray_vector * t (line 168).
QAlong(origin, vector, t) ==
    <<RAdd(origin[1], RMul(vector[1], t)), RAdd(origin[2], RMul(vector[2], t)),
      RAdd(origin[3], RMul(vector[3], t))>>

\* The hit point whatever the parameter t is.
hit_point_unchecked(ray_origin, ray_vector, t) == QAlong(ray_origin, ray_vector, t)

\* The hit point with the test on t the wrong way round.
hit_point_inverted(ray_origin, ray_vector, t) ==
    IF RLess(t, Epsilon) THEN QAlong(ray_origin, ray_vector, t) ELSE NoPoint

\* Lines 165-170 of get_intersection: the point at t when t > 1e-6.
hit_point(ray_origin, ray_vector, t) ==
    IF RLess(Epsilon, t) THEN QAlong(ray_origin, ray_vector, t) ELSE NoPoint

\* TriangularPlanarPolygon.get_intersection on rational coordinates, test
\* by test in the order of the code: f * x is x / a.
triangle_get_intersection(vertices, ray_origin, ray_vector) ==
    LET V1 == vertices[1]
        edge1 == QSub(vertices[2], V1)
        edge2 == QSub(vertices[3], V1)
        h == QCross(ray_vector, edge2)
        a == QDot(edge1, h)
        s == QSub(ray_origin, V1)
        u == RDiv(QDot(s, h), a)
        q == QCross(s, edge1)
        v == RDiv(QDot(ray_vector, q), a)
        t == RDiv(QDot(edge2, q), a)
    IN  IF RLess(RAbs(a), Epsilon) THEN NoPoint
        ELSE IF RLess(u, RZero) \/ RLess(ROne, u) THEN NoPoint
        ELSE IF RLess(v, RZero) \/ RLess(ROne, RAdd(u, v)) THEN NoPoint
        ELSE hit_point(ray_origin, ray_vector, t)

\* TriangularPlanarPolygon.__init__ and _calculate_normal on rational
\* coordinates: the cross product of the edges, as a Vector, normalized.
triangle_init(vertices) ==
    LET n == QCross(QSub(vertices[2], vertices[1]), QSub(vertices[3], vertices[1]))
        normal == Vector_normalize(Vector_init(n[1], n[2], n[3])).self
    IN  [vertices |-> vertices, normal |-> <<normal.x, normal.y, normal.z>>]

\* The triangles: in the plane z = 0 with either winding, tilted with the
\* normal (1, 2, 2) / 3, in the plane z = 0 with edges of 1/1000 and
\* 1/2000, and two with repeated vertices.
TriangleInputs ==
    { <<QPoint(<<0, 0, 0>>), QPoint(<<3, 0, 0>>), QPoint(<<0, 3, 0>>)>>,
      <<QPoint(<<0, 0, 0>>), QPoint(<<0, 3, 0>>), QPoint(<<3, 0, 0>>)>>,
      <<QPoint(<<0, 0, 0>>), QPoint(<<6, -3, 0>>), QPoint(<<6, 0, -3>>)>>,
      <<QPoint(<<0, 0, 0>>), <<Rat(1, 1000), RZero, RZero>>, <<RZero, Rat(1, 2000), RZero>>>>,
      <<QPoint(<<0, 0, 0>>), QPoint(<<0, 0, 0>>), QPoint(<<3, 0, 0>>)>>,
      <<QPoint(<<1, 1, 0>>), QPoint(<<1, 1, 0>>), QPoint(<<1, 1, 0>>)>> }

\* The rays: origins above, below, beside, on and at a vertex of the
\* triangles; directions towards, away from, along and across their planes,
\* of any length, and the zero vector.
RayOrigins ==
    { <<1, 1, 3>>, <<1, 1, -3>>, <<5, 5, 3>>, <<0, 0, 0>>, <<1, 1, 0>>, <<0, 1, 1>>, <<4, -1, 2>> }

RayVectors ==
    { <<0, 0, -1>>, <<0, 0, 1>>, <<1, 0, 0>>, <<1, 1, -3>>, <<1, 0, -2>>, <<0, 0, 0>>,
      <<-1, -2, -2>>, <<0, 1, 1>> }

\* The distances from the centroid at which a ray is aimed at it: 1/2, 1
\* and 2 for every triangle, and around 1e-6 for the triangles of integer
\* vertices whose normal is along an axis (for the others the exact values
\* leave TLC's integers).
AimDistances(triangle) ==
    {Rat(1, 2), ROne, RInt(2)}
    \cup (IF /\ Cardinality({c \in 1..3 : triangle.normal[c] # RZero}) = 1
              /\ \A k, c \in 1..3 : triangle.vertices[k][c][2] = 1
          THEN {Rat(1, 2000000), Rat(1, 500000)}
          ELSE {})

\* The centroid of a triangle: the mean of its vertices.
TriangleCentroid(vertices) ==
    [c \in 1..3 |-> RDiv(RAdd(RAdd(vertices[1][c], vertices[2][c]), vertices[3][c]), RInt(3))]

\* A triangle is made.
TriangleInit ==
    /\ \E vertices \in TriangleInputs : objects = <<triangle_init(vertices)>>
    /\ rays = <<>>
    /\ stack = <<>>
    /\ sim = Idle
    /\ log = <<>>

\* triangle.get_intersection(ray) for a ray of the catalog.
Intersect ==
    /\ Len(log) < MaxCalls
    /\ \E origin \in RayOrigins, vector \in RayVectors :
          log' = Append(log, [call |-> "get_intersection", origin |-> QPoint(origin),
                           vector |-> QPoint(vector),
                           result |-> triangle_get_intersection(objects[1].vertices,
                                                                QPoint(origin), QPoint(vector))])
    /\ UNCHANGED <<objects, rays, stack, sim>>

\* triangle.get_intersection(ray) for the ray from centroid + d * normal
\* along the inverted normal.
AimAtCentroid ==
    /\ Len(log) < MaxCalls
    /\ \E d \in AimDistances(objects[1]) :
          LET normal == objects[1].normal
              origin == QAlong(TriangleCentroid(objects[1].vertices), normal, d)
              vector == QSub(QPoint(<<0, 0, 0>>), normal)
          IN  log' = Append(log, [call |-> "aimed", d |-> d, origin |-> origin, vector |-> vector,
                               result |-> triangle_get_intersection(objects[1].vertices, origin,
                                                                    vector)])
    /\ UNCHANGED <<objects, rays, stack, sim>>

TriangleNext ==
    \/ Intersect
    \/ AimAtCentroid

TriangleSpec == TriangleInit /\ [][TriangleNext]_vars

(***************************************************************************)
(* Sampling a point inside a triangle or a rectangle (SamplingSpec), in    *)
(* rational coordinates.  objects holds the polygon and log the calls of   *)
(* random_point_inside made, each with the numbers np.random.rand gave.    *)
(***************************************************************************)
\* random_point_inside without the fold.
random_point_inside_unfolded(vertices, r1, r2) ==
    LET w == RSub(RSub(ROne, r1), r2)
    IN  [c \in 1..3 |-> RAdd(RAdd(RMul(w, vertices[1][c]), RMul(r1, vertices[2][c])),
                             RMul(r2, vertices[3][c]))]

\* TriangularPlanarPolygon.random_point_inside for the draw r1, r2: the
\* pair is folded to 1 - r1, 1 - r2 when r1 + r2 > 1 and the point is
\* (1 - r1 - r2) * p0 + r1 * p1 + r2 * p2.
random_point_inside(vertices, r1, r2) ==
    LET folded == RLess(ROne, RAdd(r1, r2))
        s1 == IF folded THEN RSub(ROne, r1) ELSE r1
        s2 == IF folded THEN RSub(ROne, r2) ELSE r2
        w == RSub(RSub(ROne, s1), s2)
    IN  [c \in 1..3 |-> RAdd(RAdd(RMul(w, vertices[1][c]), RMul(s1, vertices[2][c])),
                             RMul(s2, vertices[3][c]))]

\* RectangularPlanarPolygon.__init__: triangle1 of the vertices 0, 1, 2 and
\* triangle2 of the vertices 2, 3, 0.
rectangle_init(vertices) ==
    [vertices |-> vertices,
     triangle1 |-> triangle_init(<<vertices[1], vertices[2], vertices[3]>>),
     triangle2 |-> triangle_init(<<vertices[3], vertices[4], vertices[1]>>)]

\* RectangularPlanarPolygon.random_point_inside for the draws r, r1, r2:
\* triangle1 when r < 0.5 and triangle2 otherwise.
rectangle_random_point_inside(self, r, r1, r2) ==
    IF RLess(r, Rat(1, 2))
    THEN random_point_inside(self.triangle1.vertices, r1, r2)
    ELSE random_point_inside(self.triangle2.vertices, r1, r2)

\* The polygons sampled: the rectangle (0,0,0) (10,0,0) (10,10,0) (0,10,0),
\* a tilted rectangle, and the first three triangles of TriangleInputs.
RectangleInputs ==
    { <<QPoint(<<0, 0, 0>>), QPoint(<<10, 0, 0>>), QPoint(<<10, 10, 0>>), QPoint(<<0, 10, 0>>)>>,
      <<QPoint(<<0, 0, 0>>), QPoint(<<6, -3, 0>>), QPoint(<<12, -3, -3>>), QPoint(<<6, 0, -3>>)>> }

SampledTriangles == {t \in TriangleInputs : \A k, c \in 1..3 : t[k][c][2] = 1 /\ t[1] # t[2]}

\* What np.random.rand returns: numbers of [0, 1).
Draws == {RZero, Rat(1, 4), Rat(1, 2), Rat(3, 4), Rat(7, 8)}

\* A rectangle or a triangle is made.
SamplingInit ==
    /\ \/ \E vertices \in RectangleInputs : objects = <<rectangle_init(vertices)>>
       \/ \E vertices \in SampledTriangles : objects = <<triangle_init(vertices)>>
    /\ rays = <<>>
    /\ stack = <<>>
    /\ sim = Idle
    /\ log = <<>>

\* triangle.random_point_inside()
SampleTriangle ==
    /\ Len(log) < MaxCalls
    /\ Len(objects[1].vertices) = 3
    /\ \E r1 \in Draws, r2 \in Draws :
          log' = Append(log, [call |-> "triangle", r1 |-> r1, r2 |-> r2,
                              result |-> random_point_inside(objects[1].vertices, r1, r2)])
    /\ UNCHANGED <<objects, rays, stack, sim>>

\* rectangle.random_point_inside()
SampleRectangle ==
    /\ Len(log) < MaxCalls
    /\ Len(objects[1].vertices) = 4
    /\ \E r \in Draws, r1 \in Draws, r2 \in Draws :
          log' = Append(log, [call |-> "rectangle", r |-> r, r1 |-> r1, r2 |-> r2,
                              result |-> rectangle_random_point_inside(objects[1], r, r1, r2)])
    /\ UNCHANGED <<objects, rays, stack, sim>>

SamplingNext ==
    \/ SampleTriangle
    \/ SampleRectangle

SamplingSpec == SamplingInit /\ [][SamplingNext]_vars

(***************************************************************************)
(* Objects of a scene moved before and after a simulation.                 *)
(***************************************************************************)
\* RaySource._initialize_associated_polyhedron in mode 'point': an empty
\* Polyhedron whose reference is the Point given to the source.
associated_polyhedron(source) ==
    [EmptyPolyhedron(None) EXCEPT !.reference = [alias |-> 0, point |-> source.reference]]

\* RaySource.translate and RaySource.change_reference_point are those of
\* the associated polyhedron, and RaySource.reference is its reference.
mesh_of(object) ==
    IF object.type = "RaySource" THEN associated_polyhedron(object) ELSE object

with_mesh(object, mesh) ==
    IF object.type = "RaySource" THEN [object EXCEPT !.reference = mesh.reference.point]
    ELSE mesh

\* A call of change_reference_point that binds another Point object to the
\* reference: Centroid and Manual when they return (a copy, a new Point),
\* Lowest and Highest when the mesh has vertices and the vertex picked is
\* not the object the reference already is.
rebinds_reference(self, ref_type, axis, outcome) ==
    /\ outcome = "returned"
    /\ \/ ref_type \in {"Centroid", "Manual"}
       \/ /\ ref_type = "Lowest"
          /\ self.vertices # <<>>
          /\ first_lowest(self.vertices, axis) # self.reference.alias
       \/ /\ ref_type = "Highest"
          /\ self.vertices # <<>>
          /\ first_highest(self.vertices, axis) # self.reference.alias

\* Scenes of one point source, alone or followed by a mesh.
MovedScenes ==
    {<<source>> : source \in SourceCatalog}
    \cup {<<source, Polyhedron(<<HalfA(0), HalfB(0)>>, None)>> : source \in SourceCatalog}
    \cup {<<source, wrapped_triangle(TriUp(0))>> : source \in SourceCatalog}

MovedInit ==
    /\ objects \in MovedScenes
    /\ rays = <<>>
    /\ stack = <<>>
    /\ sim = Idle
    /\ log = <<>>

\* translate called on an object of the scene, before simulate or after
\* it has returned: the Point objects are moved in place, so a recorded
\* ray whose origin is the reference of the object moves with it.
TranslateObject ==
    /\ sim.phase \in {"building", "done"}
    /\ \E i \in 1..Len(objects), d \in Translations :
        \E done \in {translate(mesh_of(objects[i]), d)} :
            /\ InBounds(done.self)
            /\ objects' = [objects EXCEPT ![i] = with_mesh(@, done.self)]
            /\ rays' = [k \in 1..Len(rays) |->
                           IF log[k].shares = i /\ done.outcome = "returned"
                           THEN [rays[k] EXCEPT !.origin = VAdd(@, d)]
                           ELSE rays[k]]
    /\ UNCHANGED <<stack, sim, log>>

\* change_reference_point called on an object of the scene: a new
\* reference Point leaves the old one to the rays that hold it.
ChangeObjectReference ==
    /\ sim.phase \in {"building", "done"}
    /\ \E i \in 1..Len(objects), a \in ReferenceCalls :
        \E done \in {change_reference_point(mesh_of(objects[i]), a.ref_type, a.axis, a.x, a.y, a.z)} :
            /\ objects' = [objects EXCEPT ![i] = with_mesh(@, done.self)]
            /\ log' = [k \in 1..Len(log) |->
                          IF log[k].shares = i
                             /\ rebinds_reference(mesh_of(objects[i]), a.ref_type, a.axis, done.outcome)
                          THEN [log[k] EXCEPT !.shares = 0]
                          ELSE log[k]]
    /\ UNCHANGED <<rays, stack, sim>>

MovedNext ==
    \/ TranslateObject
    \/ ChangeObjectReference
    \/ RemoveObject
    \/ SetMaterial
    \/ Simulate
    \/ NextObject
    \/ Emit
    \/ SimulateReturn
    \/ Prune
    \/ Escape
    \/ HitRaises

MovedSpec == MovedInit /\ [][MovedNext]_vars

\* The program as written.
Next ==
    \/ AddPolyhedron
    \/ AddRaySource
    \/ AddTriangle
    \/ AddRectangle
    \/ RemoveObject
    \/ SetMaterial
    \/ Simulate
    \/ NextObject
    \/ Emit
    \/ SimulateReturn
    \/ Prune
    \/ Escape
    \/ HitRaises

Spec == Init /\ [][Next]_vars

\* A call of simulate, once made, keeps running: the interpreter takes the
\* next step of the loops and of _propagate whenever there is one.  The
\* client's calls (add_object, simulate) are under no such obligation.
Run ==
    \/ NextObject
    \/ Emit
    \/ SimulateReturn
    \/ Prune
    \/ Escape
    \/ HitRaises

FairSpec == Spec /\ WF_vars(Run)

(***************************************************************************)
(* Properties.                                                             *)
(***************************************************************************)
\* The positions of Scene.objects that hold a Polyhedron.
Polyhedra == {i \in 1..Len(objects) : objects[i].type = "Polyhedron"}

\* The call on top of the stack has just been entered.
Entered == stack # <<>> /\ Top.pc = "enter"

\* The (polyhedron, face) pairs whose face the ray hits.
Candidates(ray) ==
    UNION {{<<i, j>> : j \in {f \in 1..Len(objects[i].faces) :
                                get_intersection(objects[i].faces[f], ray) # NoPoint}} :
           i \in Polyhedra}

HitPoint(c, ray) == get_intersection(objects[c[1]].faces[c[2]], ray)
HitDistance(c, ray) == distance(HitPoint(c, ray), ray.origin)

\* The name by which the specification and the claims tell materials apart
\* ("Identity is by name (derived from file stem)"; vacuum is the default).
\* Material.py assigns no such attribute; the name is used in stating the
\* claims only, and no action reads it.
MaterialName(m) ==
    CASE m.file_path = None -> "Vacuum"
      [] m.file_path = GlassPath -> "glass"
      [] m.file_path = DyePath -> "dye"

\* C2: at every hit a transmitted child is made, and its medium is the
\* far-side medium: vacuum when the hit mesh's material has the name of the
\* incoming ray's medium, the hit mesh's material otherwise.
C2_TransmittedMediumIsFarSide ==
    /\ sim.phase # "raised"
    /\ \A k \in 2..Len(stack) :
          stack[k].kind = "transmitted" =>
             stack[k].ray.medium =
                IF MaterialName(stack[k - 1].m1) =
                   MaterialName(objects[stack[k - 1].intersection.polyhedron].material)
                THEN Vacuum
                ELSE objects[stack[k - 1].intersection.polyhedron].material

\* C3: at every hit the transmitted child is traced, and with the budget b
\* its parent was called with; only the reflected child is traced with b - 1.
C3_RefractionKeepsBudget ==
    /\ \A k \in 1..Len(log) : log[k].outcome = "hit" => sim.phase \in {"simulating", "done"}
    /\ \A k \in 2..Len(stack) :
          /\ stack[k].kind = "transmitted" => stack[k].arg = stack[k - 1].arg
          /\ stack[k].kind = "reflected" => stack[k].arg = stack[k - 1].arg - 1

\* C7: every face of every mesh keeps the normal it was constructed with
\* (the one its vertices give), whatever has been traced.
C7_GeometryUnchanged ==
    \A i \in Polyhedra : \A j \in 1..Len(objects[i].faces) :
        objects[i].faces[j].normal = calculate_normal(objects[i].faces[j].vertices)

\* C5: a ray whose intensity is below min_intensity when _propagate is
\* entered is dropped: the step records nothing, changes no mesh and makes
\* no child, and the call is over; so every recorded ray entered
\* _propagate with an intensity of at least min_intensity.
C5_Pruning ==
    /\ [](\A k \in 1..Len(log) : RLeq(sim.min_intensity, log[k].entered))
    /\ [][(Entered /\ RLess(Top.ray.intensity, sim.min_intensity)) =>
             /\ rays' = rays
             /\ objects' = objects
             /\ stack' = Pop(stack)
             /\ sim'.phase = "simulating"]_vars

\* The ray emitted last was below the minimum, its call is over, and no
\* recorded ray descends from it.
C5_Witness ==
    /\ sim.phase = "simulating"
    /\ stack = <<>>
    /\ sim.obj <= Len(objects)
    /\ sim.n > 0
    /\ RLess(objects[sim.obj].intensity, sim.min_intensity)
    /\ \A k \in 1..Len(log) : log[k].root # <<sim.obj, sim.n>>

\* C6: a ray of intensity at least min_intensity that no face of any mesh
\* intersects is terminated at origin + direction * final_length and
\* recorded once, and its call is over without any child.
C6_EscapeIsTerminal ==
    [][(Entered /\ RLeq(sim.min_intensity, Top.ray.intensity) /\ Candidates(Top.ray) = {}) =>
          /\ Len(rays') = Len(rays) + 1
          /\ SubSeq(rays', 1, Len(rays)) = rays
          /\ rays'[Len(rays')].origin = Top.ray.origin
          /\ rays'[Len(rays')].normal = Top.ray.normal
          /\ \A c \in 1..3 :
                rays'[Len(rays')].final_point[c] =
                    Top.ray.origin[c] + sim.final_length * Top.ray.normal[c]
          /\ stack' = Pop(stack)
          /\ objects' = objects]_vars

\* The ray recorded last escaped, with meshes in the scene.
C6_Witness ==
    /\ log # <<>>
    /\ log[Len(log)].outcome = "escaped"
    /\ Polyhedra # {}
    /\ rays[Len(rays)].final_point # rays[Len(rays)].origin

\* The call a frame belongs to: the emitted ray and the path from it.
SameCall(f, g) == f.root = g.root /\ f.path = g.path

\* C8: every recorded ray has its terminal point set, with the absorption
\* of its one segment applied once to the intensity it entered with; a ray
\* whose terminal point is set is not written again, and neither is a
\* recorded ray.
C8_WriteOnce ==
    /\ [](\A k \in 1..Len(rays) :
             /\ rays[k].final_point # NoPoint
             /\ rays[k].intensity =
                   RMul(log[k].entered,
                        RPow(unit_transmission(rays[k].medium, rays[k].wavelength),
                             distance(rays[k].origin, rays[k].final_point))))
    /\ [][/\ SubSeq(rays', 1, Len(rays)) = rays
          /\ \A k \in 1..Len(stack) :
                (k <= Len(stack') /\ SameCall(stack[k], stack'[k])
                   /\ stack[k].ray.final_point # NoPoint) =>
                       stack'[k].ray = stack[k].ray]_vars

\* A ray that hit a face and a ray that escaped are both recorded.
C8_Witness ==
    /\ \E k \in 1..Len(log) : log[k].outcome = "hit" /\ rays[k].final_point # NoPoint
    /\ \E k \in 1..Len(log) : log[k].outcome = "escaped" /\ rays[k].final_point # NoPoint

\* The nearest candidates of a set, and the first of them in scene object
\* order and then face order.
Nearest(cands, ray) ==
    {c \in cands : \A d \in cands : HitDistance(c, ray) <= HitDistance(d, ray)}

FirstOf(cands) ==
    CHOOSE c \in cands :
        \A d \in cands : c[1] < d[1] \/ (c[1] = d[1] /\ c[2] <= d[2])

\* C10: for the ray of a call just entered, get_nearest_intersection of a
\* mesh is None exactly when the ray hits none of its faces and otherwise
\* the nearest hit, the first in face order among equally near ones; and
\* the intersection _propagate selects is the nearest over all meshes, the
\* first in scene object order among equally near ones.
C10_NearestSelection ==
    Entered =>
        /\ \A i \in Polyhedra :
              LET mine == {c \in Candidates(Top.ray) : c[1] = i}
                  got == get_nearest_intersection(objects[i], Top.ray)
              IN  IF mine = {} THEN got = NoIntersection
                  ELSE LET c == FirstOf(Nearest(mine, Top.ray))
                       IN  got = [point |-> HitPoint(c, Top.ray), face |-> c[2]]
        /\ LET all == Candidates(Top.ray)
               found == scene_intersections(objects, Top.ray)
           IN  IF all = {} THEN found = <<>>
               ELSE LET c == FirstOf(Nearest(all, Top.ray))
                    IN  min_by_distance(found, Top.ray.origin) =
                           [point |-> HitPoint(c, Top.ray), face |-> c[2], polyhedron |-> c[1]]

\* A ray whose nearest hits are tied between two faces of one mesh and
\* between two meshes, with a farther face hit as well.
C10_Witness ==
    /\ Entered
    /\ \E c, d \in Nearest(Candidates(Top.ray), Top.ray) : c[1] = d[1] /\ c[2] # d[2]
    /\ \E c, d \in Nearest(Candidates(Top.ray), Top.ray) : c[1] # d[1]
    /\ Nearest(Candidates(Top.ray), Top.ray) # Candidates(Top.ray)

\* The recorded rays (positions of Scene.rays) that descend from the emitted
\* ray root, the sum of the recorded intensities of a set of them, and the
\* intensity the ray was emitted with.
Descendants(root) == {k \in 1..Len(log) : log[k].root = root}

RECURSIVE RecordedSum(_)
RecordedSum(K) ==
    IF K = {} THEN RZero
    ELSE LET k == CHOOSE x \in K : TRUE
         IN  RAdd(rays[k].intensity, RecordedSum(K \ {k}))

Emitted(root) == objects[root[1]].intensity

EmittedRays == {log[k].root : k \in 1..Len(log)}

\* C1: for every emitted ray, the recorded intensities of all the rays
\* descending from it, at every depth together, sum to at most the
\* intensity it was emitted with.
C1_EnergyAllDepths ==
    \A root \in EmittedRays : RLeq(RecordedSum(Descendants(root)), Emitted(root))

\* One emitted ray was recorded at a hit and another as escaped, and the
\* recorded rays of each carry the whole intensity it was emitted with,
\* which is above 0.
C1_Witness ==
    \E a, b \in EmittedRays :
        /\ \E k \in Descendants(a) : log[k].outcome = "hit"
        /\ \E k \in Descendants(b) : log[k].outcome = "escaped"
        /\ RLess(RZero, Emitted(a))
        /\ RecordedSum(Descendants(a)) = Emitted(a)
        /\ RecordedSum(Descendants(b)) = Emitted(b)

Mesh == objects[1]
LastCall == log[1]

\* Two or more of the three vertices have equal coordinates.
Degenerate(points) ==
    points[1] = points[2] \/ points[1] = points[3] \/ points[2] = points[3]

\* C11: add_face of a degenerate triangle returns without an exception and
\* leaves the mesh's faces, face index list and vertex list as they were.
C11_DegenerateFaceRejected ==
    [][(log' # <<>> /\ log'[1].call = "add_face" /\ Degenerate(log'[1].points)) =>
          /\ log'[1].outcome = "returned"
          /\ objects'[1].faces = objects[1].faces
          /\ objects'[1].face_indices = objects[1].face_indices
          /\ objects'[1].vertices = objects[1].vertices]_vars

\* The index triples of a mesh are sound: three positions of the vertex
\* list, no two the same.
SoundIndices(self) ==
    \A f \in 1..Len(self.face_indices) :
        /\ \A k \in 1..3 : self.face_indices[f][k] \in 1..Len(self.vertices)
        /\ self.face_indices[f][1] # self.face_indices[f][2]
        /\ self.face_indices[f][1] # self.face_indices[f][3]
        /\ self.face_indices[f][2] # self.face_indices[f][3]

\* C12: every face index triple of the mesh consists of three pairwise
\* distinct indices, each a position of the mesh's vertex list.
C12_IndexInvariant == objects # <<>> => SoundIndices(Mesh)

\* No two entries of the vertex list have equal coordinates.
Deduplicated(self) ==
    \A i, j \in 1..Len(self.vertices) : i # j => self.vertices[i] # self.vertices[j]

\* C13: a call of clean_vertices leaves a vertex list without equal
\* coordinates, keeps the number of faces and of index triples, keeps the
\* coordinates every index of every face resolves to, in the same order,
\* leaves at most 3 vertices per face, and leaves a mesh that a second
\* clean_vertices does not change.
C13_CleanPreservesFaces ==
    [][(log' # <<>> /\ log'[1].call = "clean_vertices") =>
          /\ Deduplicated(objects'[1])
          /\ Len(objects'[1].faces) = Len(objects[1].faces)
          /\ objects'[1].faces = objects[1].faces
          /\ Len(objects'[1].face_indices) = Len(objects[1].face_indices)
          /\ \A f \in 1..Len(objects[1].face_indices) : \A k \in 1..3 :
                objects'[1].vertices[objects'[1].face_indices[f][k]] =
                    objects[1].vertices[objects[1].face_indices[f][k]]
          /\ Len(objects'[1].vertices) <= 3 * Len(objects'[1].faces)
          /\ clean_vertices(objects'[1]) = objects'[1]]_vars

\* clean_vertices has run on a mesh of two faces whose vertex list held
\* repeated coordinates, and removed them.
C13_Witness ==
    /\ log # <<>>
    /\ log[1].call = "clean_vertices"
    /\ Len(Mesh.faces) = 2
    /\ Len(Mesh.vertices) < log[1].before
    /\ Deduplicated(Mesh)

\* C14: between the calls on the mesh, the face list and the face index
\* list have the same length, and the vertex-list entry at every index of
\* every face has the coordinates of the same corner of the Triangle object
\* in the face list.
C14_RepresentationsConsistent ==
    (objects # <<>> /\ stack = <<>>) =>
        /\ Len(Mesh.faces) = Len(Mesh.face_indices)
        /\ \A f \in 1..Len(Mesh.face_indices) : \A k \in 1..3 :
              Mesh.vertices[Mesh.face_indices[f][k]] = Mesh.faces[f].vertices[k]

\* The face lines of an OBJ file.
FaceLines(lines) == {n \in 1..Len(lines) : lines[n].tag = "f"}

\* C15: parsing an OBJ file with a face line that lists a number of vertex
\* indices other than 3 or 4 fails: the constructor raises and no mesh is
\* returned.
C15_FaceCountError ==
    (log # <<>> /\ log[1].call = "parse"
       /\ \E n \in FaceLines(log[1].lines) : Len(log[1].lines[n].parts) \notin {3, 4}) =>
          /\ log[1].outcome # "returned"
          /\ objects = <<>>

\* The number of vertices defined before line n of an OBJ file, and the
\* face lines of 3 or 4 indices with an index that names none of them.
DefinedBefore(lines, n) == Cardinality({m \in 1..(n - 1) : lines[m].tag = "v"})

BadIndexLines(lines) ==
    {n \in FaceLines(lines) :
        /\ Len(lines[n].parts) \in {3, 4}
        /\ \E c \in 1..Len(lines[n].parts) :
              lines[n].parts[c] < 1 \/ lines[n].parts[c] > DefinedBefore(lines, n)}

\* C16: parsing an OBJ file with a triangle or rectangle face line in which
\* some index is 0, negative or greater than the number of vertices defined
\* so far fails with an index-out-of-range error, and no mesh is returned.
C16_IndexOutOfRange ==
    (log # <<>> /\ log[1].call = "parse" /\ BadIndexLines(log[1].lines) # {}) =>
        /\ log[1].outcome = "IndexError"
        /\ objects = <<>>

\* The arguments of a call of change_reference_point name no kind of
\* reference point, or the kind Manual without all of x, y and z.
InvalidReference(a) ==
    \/ a.ref_type \notin {"Centroid", "Lowest", "Highest", "Manual"}
    \/ a.ref_type = "Manual" /\ (a.x = Omitted \/ a.y = Omitted \/ a.z = Omitted)

\* C17: change_reference_point with an unknown kind, or with the kind Manual
\* and any of x, y, z missing, raises ValueError and leaves the mesh's
\* reference point, vertices and faces as they were.
C17_InvalidReferenceRejected ==
    [][(log' # <<>> /\ log'[1].call = "change_reference_point"
          /\ InvalidReference(log'[1].arguments)) =>
             /\ log'[1].outcome = "ValueError"
             /\ objects'[1].reference = objects[1].reference
             /\ objects'[1].vertices = objects[1].vertices
             /\ objects'[1].faces = objects[1].faces
             /\ objects'[1].face_indices = objects[1].face_indices]_vars

\* A call with an unknown kind has been refused on a mesh that has a face
\* and a reference point.
C17_Witness ==
    /\ log # <<>>
    /\ log[1].call = "change_reference_point"
    /\ log[1].arguments.ref_type = "Middle"
    /\ log[1].outcome = "ValueError"
    /\ Mesh.faces # <<>>
    /\ Mesh.reference.point # NoPoint

(***************************************************************************)
(* Properties of Vector calls (VectorSpec).                                *)
(***************************************************************************)
\* C18: normalize on a vector whose magnitude is 0 returns without an
\* exception, performs no division and leaves x, y, z and the module
\* attribute as they were; angle_with raises ValueError, and returns no
\* angle, whenever the magnitude of either operand is 0.
C18_ZeroVector ==
    \A k \in 1..Len(log) :
        /\ (log[k].call = "normalize" /\ log[k].before.module = RZero) =>
              /\ log[k].outcome = "returned"
              /\ log[k].divisions = 0
              /\ log[k].after = log[k].before
        /\ (log[k].call = "angle_with"
              /\ (log[k].self.module = RZero \/ log[k].other.module = RZero)) =>
              /\ log[k].outcome = "ValueError"
              /\ log[k].cos = <<>>

\* The zero vector has been normalized, with the warning, and then its
\* angle with a vector that is not zero has been asked for and refused.
C18_Witness ==
    /\ Len(log) = 2
    /\ log[1].call = "normalize" /\ log[1].before.module = RZero /\ log[1].warning
    /\ log[2].call = "angle_with" /\ log[2].outcome = "ValueError"
    /\ log[2].other = log[1].after
    /\ log[2].self.module # RZero

(***************************************************************************)
(* Properties of get_intersection (TriangleSpec), stated from the geometry *)
(* of the triangle and the ray rather than from the steps of the code.     *)
(***************************************************************************)
\* The triangle tested, edge1 x edge2 of it, and for a ray its direction
\* times that vector and the parameter at which it meets the plane.
Tested == objects[1].vertices

EdgeCross == QCross(QSub(Tested[2], Tested[1]), QSub(Tested[3], Tested[1]))

Across(r) == QDot(r.vector, EdgeCross)

PlaneParameter(r) == RDiv(QDot(QSub(Tested[1], r.origin), EdgeCross), Across(r))

\* The barycentric coordinates <<u, v>> of a point P of the plane:
\* P = V1 + u * edge1 + v * edge2.
BarycentricOf(P) ==
    LET edge1 == QSub(Tested[2], Tested[1])
        edge2 == QSub(Tested[3], Tested[1])
        w == QSub(P, Tested[1])
        det == RSub(RMul(QDot(edge1, edge1), QDot(edge2, edge2)), RSquare(QDot(edge1, edge2)))
    IN  <<RDiv(RSub(RMul(QDot(edge2, edge2), QDot(w, edge1)),
                    RMul(QDot(edge1, edge2), QDot(w, edge2))), det),
          RDiv(RSub(RMul(QDot(edge1, edge1), QDot(w, edge2)),
                    RMul(QDot(edge1, edge2), QDot(w, edge1))), det)>>

\* C19: get_intersection returns None when the ray is parallel to the
\* plane of the triangle (|a| < 1e-6, a being the direction times
\* edge1 x edge2 up to sign) and when the ray meets the plane at a parameter
\* t <= 1e-6; a point it returns is origin + t * direction with t > 1e-6,
\* and has barycentric coordinates u >= 0, v >= 0, u + v <= 1.
C19_IntersectionRejections ==
    \A k \in 1..Len(log) :
        /\ RLess(RAbs(Across(log[k])), Epsilon) => log[k].result = NoPoint
        /\ (Across(log[k]) # RZero /\ RLeq(PlaneParameter(log[k]), Epsilon)) =>
              log[k].result = NoPoint
        /\ log[k].result # NoPoint =>
              /\ Across(log[k]) # RZero
              /\ RLess(Epsilon, PlaneParameter(log[k]))
              /\ log[k].result = QAlong(log[k].origin, log[k].vector, PlaneParameter(log[k]))
              /\ RLeq(RZero, BarycentricOf(log[k].result)[1])
              /\ RLeq(RZero, BarycentricOf(log[k].result)[2])
              /\ RLeq(RAdd(BarycentricOf(log[k].result)[1], BarycentricOf(log[k].result)[2]),
                      ROne)

\* A ray that meets the triangle 1/2000000 ahead of its origin got None,
\* and a ray across the plane got a point that is not the point straight
\* below its origin.
C19_Witness ==
    /\ Len(log) = 2
    /\ log[1].result = NoPoint
    /\ Across(log[1]) # RZero
    /\ PlaneParameter(log[1]) = Rat(1, 2000000)
    /\ log[2].result # NoPoint
    /\ log[2].result[1] # log[2].origin[1]

\* The vertices of the triangle tested are pairwise different and not on
\* one line, and the magnitude of edge1 x edge2.
NonDegenerate == EdgeCross # QPoint(<<0, 0, 0>>)

EdgeCrossModule == Vector_init(EdgeCross[1], EdgeCross[2], EdgeCross[3]).module

\* C20 as claimed: for a non-degenerate triangle, the ray from
\* centroid + d * normal (d > 0) along the inverted unit normal is given a
\* hit point, and it is the centroid.
C20_CentroidAlwaysHit ==
    \A k \in 1..Len(log) :
        (log[k].call = "aimed" /\ NonDegenerate /\ RLess(RZero, log[k].d)) =>
            log[k].result = TriangleCentroid(Tested)

\* C20 as amended: the same for d > 1e-6 and a triangle with
\* |edge1 x edge2| >= 1e-6.
C20_CentroidHitBeyondEpsilon ==
    \A k \in 1..Len(log) :
        (log[k].call = "aimed" /\ RLeq(Epsilon, EdgeCrossModule)
            /\ RLess(Epsilon, log[k].d)) =>
            log[k].result = TriangleCentroid(Tested)

\* A ray aimed from 1/500000 away hit the centroid and a ray aimed from
\* 1/2000000 away got None, on the same triangle.
C20_Witness ==
    /\ Len(log) = 2
    /\ log[1].call = "aimed" /\ log[1].d = Rat(1, 500000)
    /\ log[1].result = TriangleCentroid(Tested)
    /\ log[2].call = "aimed" /\ log[2].d = Rat(1, 2000000)
    /\ log[2].result = NoPoint
    /\ RLeq(Epsilon, EdgeCrossModule)

(***************************************************************************)
(* Properties of random_point_inside (SamplingSpec).                       *)
(***************************************************************************)
\* P is a point of the triangle: P = V1 + u * edge1 + v * edge2 with
\* u >= 0, v >= 0 and u + v <= 1, u and v being found from P.
InsideTriangle(vertices, P) ==
    LET edge1 == QSub(vertices[2], vertices[1])
        edge2 == QSub(vertices[3], vertices[1])
        w == QSub(P, vertices[1])
        det == RSub(RMul(QDot(edge1, edge1), QDot(edge2, edge2)), RSquare(QDot(edge1, edge2)))
        u == RDiv(RSub(RMul(QDot(edge2, edge2), QDot(w, edge1)),
                       RMul(QDot(edge1, edge2), QDot(w, edge2))), det)
        v == RDiv(RSub(RMul(QDot(edge1, edge1), QDot(w, edge2)),
                       RMul(QDot(edge1, edge2), QDot(w, edge1))), det)
    IN  /\ RLeq(RZero, u) /\ RLeq(RZero, v) /\ RLeq(RAdd(u, v), ROne)
        /\ \A c \in 1..3 : w[c] = RAdd(RMul(u, edge1[c]), RMul(v, edge2[c]))

\* C21: every point random_point_inside returns for a triangle lies inside
\* the triangle; every point it returns for a rectangle lies inside one of
\* the rectangle's two triangles, and for the rectangle (0,0,0) (10,0,0)
\* (10,10,0) (0,10,0) has 0 <= x <= 10, 0 <= y <= 10 and z = 0.
C21_SampleInside ==
    \A k \in 1..Len(log) :
        /\ log[k].call = "triangle" => InsideTriangle(objects[1].vertices, log[k].result)
        /\ log[k].call = "rectangle" =>
              /\ \/ InsideTriangle(objects[1].triangle1.vertices, log[k].result)
                 \/ InsideTriangle(objects[1].triangle2.vertices, log[k].result)
              /\ objects[1].vertices[3] = QPoint(<<10, 10, 0>>) =>
                    /\ RLeq(RZero, log[k].result[1]) /\ RLeq(log[k].result[1], RInt(10))
                    /\ RLeq(RZero, log[k].result[2]) /\ RLeq(log[k].result[2], RInt(10))
                    /\ log[k].result[3] = RZero

\* The rectangle of side 10 was sampled twice with a draw that is folded
\* (r1 + r2 > 1), once in each of its triangles.
C21_Witness ==
    /\ Len(log) = 2
    /\ objects[1].vertices[3] = QPoint(<<10, 10, 0>>)
    /\ log[1].call = "rectangle" /\ RLess(log[1].r, Rat(1, 2))
    /\ RLess(ROne, RAdd(log[1].r1, log[1].r2))
    /\ log[2].call = "rectangle" /\ ~RLess(log[2].r, Rat(1, 2))
    /\ RLess(ROne, RAdd(log[2].r1, log[2].r2))
    /\ log[1].result # log[2].result

(***************************************************************************)
(* Further properties of the traced scene.                                 *)
(***************************************************************************)
\* Every mesh of the scene has the vacuum material, as every emitted ray has.
IndexMatched == \A i \in Polyhedra : objects[i].material = Vacuum

\* C22: in a scene whose meshes are all vacuum, no hit ends the simulation
\* in an error; a reflected child carries intensity 0; a transmitted child
\* has its parent's direction and its parent's intensity after absorption;
\* and a recorded ray that escaped came straight from its emitted ray.
C22_IndexMatchedInterface ==
    IndexMatched =>
        /\ sim.phase # "raised"
        /\ \A k \in 2..Len(stack) :
              /\ stack[k].kind = "reflected" => stack[k].ray.intensity = RZero
              /\ stack[k].kind = "transmitted" =>
                    /\ stack[k].ray.normal = stack[k - 1].ray.normal
                    /\ stack[k].ray.intensity = stack[k - 1].ray.intensity
        /\ \A k \in 1..Len(log) :
              (log[k].outcome = "escaped" /\ \A c \in 1..Len(log[k].path) : log[k].path[c] = "T") =>
                  /\ rays[k].normal = objects[log[k].root[1]].normal
                  /\ rays[k].final_point =
                        VAdd(rays[k].origin, VScale(sim.final_length, rays[k].normal))

\* C23: a ray just returned by get_next_ray of a point source starts at the
\* source's reference point as it is now, also when the source was
\* translated or given another reference point before, and carries the
\* source's intensity, vacuum as its medium and no terminal point.
C23_PointEmission ==
    \A k \in 1..Len(stack) :
        (stack[k].kind = "emitted" /\ stack[k].pc = "enter") =>
            /\ stack[k].ray.origin = objects[stack[k].root[1]].reference
            /\ stack[k].ray.intensity = objects[stack[k].root[1]].intensity
            /\ stack[k].ray.medium = Vacuum
            /\ stack[k].ray.final_point = NoPoint

\* A ray is emitted by a source that is no longer where it was made.
C23_Witness ==
    /\ stack # <<>>
    /\ stack[1].kind = "emitted"
    /\ stack[1].pc = "enter"
    /\ \A source \in SourceCatalog :
          source.normal = stack[1].ray.normal => source.reference # stack[1].ray.origin
    /\ stack[1].ray.intensity = Rat(1, 20)

\* The lines of a file that start with "v " among its first n lines, and the
\* triangles its face lines among the first n add: one for three vertex
\* numbers, two for four.
VerticesRead(lines, n) == Cardinality({j \in 1..n : lines[j].tag = "v"})

RECURSIVE FacesRead(_, _)
FacesRead(lines, n) ==
    IF n = 0 THEN 0
    ELSE FacesRead(lines, n - 1)
         + (IF lines[n].tag # "f" THEN 0
            ELSE CASE Len(lines[n].parts) = 3 -> 1
                   [] Len(lines[n].parts) = 4 -> 2
                   [] OTHER -> 0)

\* C24: reading an OBJ file with a progress callback calls it once for
\* every line read, the k-th call with k / total * 100: the arguments
\* increase strictly, lie in (0, 100], and reach 100 on the last line of a
\* file read to its end; and each call is made before its line's vertex or
\* face is taken in.
C24_ParseProgress ==
    (log # <<>> /\ log[1].call = "parse with progress") =>
        LET calls == log[1].progress
            lines == log[1].lines IN
        /\ Len(calls) <= Len(lines)
        /\ log[1].outcome = "returned" => Len(calls) = Len(lines)
        /\ \A k \in 1..Len(calls) :
              /\ calls[k].progress = Rat(100 * k, Len(lines))
              /\ RLess(RZero, calls[k].progress)
              /\ RLeq(calls[k].progress, Rat(100, 1))
              /\ k > 1 => RLess(calls[k - 1].progress, calls[k].progress)
              /\ k = Len(lines) => calls[k].progress = Rat(100, 1)
              /\ calls[k].vertices = VerticesRead(lines, k - 1)
              /\ calls[k].faces = FacesRead(lines, k - 1)
        /\ log[1].outcome # "returned" =>
              /\ Len(calls) >= 1
              /\ lines[Len(calls)].tag = "f"

\* A file of five lines has been read to its end with a callback, which
\* was called five times, the last time with 100, and saw no face before
\* the face line.
C24_Witness ==
    /\ log # <<>>
    /\ log[1].call = "parse with progress"
    /\ log[1].outcome = "returned"
    /\ Len(log[1].progress) = 5
    /\ log[1].progress[5].progress = Rat(100, 1)
    /\ log[1].lines[5].tag = "f"
    /\ log[1].progress[5].faces = 0
    /\ Len(objects[1].faces) = 2

\* The intersection chosen for a recorded ray that hit: the nearest one of
\* the scene's meshes on its line.
HitOf(ray) == min_by_distance(scene_intersections(objects, ray), ray.origin)

HitFaceNormal(ray) == objects[HitOf(ray).polyhedron].faces[HitOf(ray).face].normal

\* C25: at a hit the face normal is oriented against the incoming ray: the
\* angle of incidence between the inverted ray direction and the oriented
\* normal has a cosine in [0, 1], from whichever side the face is hit.  This
\* is stated of the normal the hit leaves in the face.
C25_NormalOpposesRay ==
    (rays # <<>> /\ log[Len(log)].outcome = "hit") =>
        LET ray == rays[Len(rays)] IN
        /\ RLeq(RZero, cos_angle_with(invert(ray.normal), HitFaceNormal(ray)))
        /\ RLeq(cos_angle_with(invert(ray.normal), HitFaceNormal(ray)), ROne)

\* A face has been hit from the side its normal as made points away from,
\* and another from the side it points to.
C25_Witness ==
    /\ rays # <<>>
    /\ log[Len(log)].outcome = "hit"
    /\ HitFaceNormal(rays[Len(rays)]) =
          invert(calculate_normal(
              objects[HitOf(rays[Len(rays)]).polyhedron].faces[HitOf(rays[Len(rays)]).face].vertices))

C25_WitnessFront ==
    /\ rays # <<>>
    /\ log[Len(log)].outcome = "hit"
    /\ HitFaceNormal(rays[Len(rays)]) =
          calculate_normal(
              objects[HitOf(rays[Len(rays)]).polyhedron].faces[HitOf(rays[Len(rays)]).face].vertices)

\* The order of the calls of _propagate for two rays: an earlier source
\* before a later one, an earlier ray of a source before a later one, a ray
\* before its descendants, and below a common ancestor the reflected side
\* before the transmitted side.
IsProperPrefix(p, q) == Len(p) < Len(q) /\ SubSeq(q, 1, Len(p)) = p

FirstDifference(p, q) == CHOOSE c \in 1..Len(p) : p[c] # q[c] /\ SubSeq(p, 1, c - 1) = SubSeq(q, 1, c - 1)

Diverge(p, q) == \E c \in 1..Len(p) : c <= Len(q) /\ p[c] # q[c]

TracedBefore(a, b) ==
    \/ a.root[1] < b.root[1]
    \/ a.root[1] = b.root[1] /\ a.root[2] < b.root[2]
    \/ /\ a.root = b.root
       /\ \/ IsProperPrefix(a.path, b.path) /\ a.outcome = "hit"
          \/ /\ Diverge(a.path, b.path)
             /\ a.path[FirstDifference(a.path, b.path)] = "R"
             /\ b.path[FirstDifference(a.path, b.path)] = "T"

Leaves(root) == {k \in Descendants(root) : log[k].outcome = "escaped"}

\* The recorded ray an emitted ray's tree has on a path, if any.
RecordedOn(root, path) == {k \in Descendants(root) : log[k].path = path}

MovedVertices(vertices, d) == [k \in 1..Len(vertices) |-> VAdd(vertices[k], d)]

\* C28: a call of translate that returns has moved the reference point and
\* every entry of the vertex list by the vector given, once each, whatever
\* calls were made on the mesh before; and translating by a vector and then
\* by its opposite brings every coordinate back.
C28_TranslateOnce ==
    /\ [][(log' # <<>> /\ log'[1].call = "translate" /\ log'[1].outcome = "returned") =>
             LET before == IF stack # <<>> THEN stack[1].before ELSE objects[1] IN
             /\ objects'[1].vertices = MovedVertices(before.vertices, log'[1].d)
             /\ objects'[1].reference.point = VAdd(before.reference.point, log'[1].d)]_vars
    /\ [](objects # <<>> =>
             \A d \in Translations :
                 translate(objects[1], d).outcome = "returned" =>
                     /\ translate(translate(objects[1], d).self, invert(d)).outcome = "returned"
                     /\ translate(translate(objects[1], d).self, invert(d)).self = objects[1])

\* C29: a mesh with at least one vertex has a reference point, however it
\* was built, and no call of translate on a mesh ends in an error for a
\* missing reference.
C29_ReferenceSet ==
    /\ (objects # <<>> /\ objects[1].vertices # <<>>) => objects[1].reference.point # NoPoint
    /\ (log # <<>> /\ log[1].call = "translate" /\ objects[1].vertices # <<>>) =>
          log[1].outcome = "returned"

\* C30: once simulate has returned, no call on a source or a mesh of the
\* scene changes a ray of Scene.rays: the origin, the terminal point and
\* the intensity of every recorded ray stay as they were recorded.
C30_RecordedRaysKept ==
    [][(sim.phase = "done" /\ sim'.phase = "done") => rays' = rays]_vars

====
